---------------------------- MODULE Spec2Model ----------------------------
(***************************************************************************)
(* Kompite: match manager FSM, realtime handlers and treasury ledger.      *)
(*                                                                         *)
(* Money is counted in hundredths of a token (Decimal with two places),    *)
(* time in whole seconds of time.time().  An optional value (Python None)  *)
(* is the empty sequence, a present value x is <<x>>.                      *)
(***************************************************************************)
EXTENDS Integers, Sequences, FiniteSets, TLC

(***************************************************************************)
(* Bounds of the model.                                                    *)
(***************************************************************************)
MaxMatches == 1     \* rooms created by uuid4() in one behaviour
MaxTime    == 1     \* last second the clock reaches
MaxTasks   == 2     \* handler coroutines suspended at the same time
MaxEntries == 2     \* committed ledger entries in the ledger harness
FsmRooms   == 2     \* rooms in the transition_state harness
MaxQueue   == 1     \* entries waiting under one queue key
MaxClock   == 61    \* last second the clock of the timer specification reaches
MaxWaiting == 2     \* entries waiting under one queue key in the matchmaking specification
MaxMoves   == 3     \* moves recorded in one room in the game-move specification
MaxRequests == 12   \* match requests that reach the rate-limit check
MaxBeats   == 5     \* heartbeats of one client after its baseline exists
MaxMissed  == 4     \* heartbeats in a row that one account is found to have missed
MaxDisconnects == 3 \* entries of recent_disconnects
MaxOutage  == 48    \* seconds the clock of the disconnect specification runs
StartTime  == 100   \* time.time() when the process starts
MaxRakeBet == 240   \* largest bet of the fee specification, in quarter tokens
MaxRolls   == 3     \* dice rolls of one board game in the board-game specification
MaxRooms   == 2     \* rooms created in the specification of repeated joins

Users    == {"alice", "bob"}
MatchIds == 1..MaxMatches
Times    == 0..MaxTime
TaskIds  == 1..MaxTasks
Bets     == {0, 2500}
LedgerBets == {0, 2500}
LedgerMatches == {1}

None == <<>>
Some(x) == <<x>>

VARIABLES
    now,               \* time.time(), in seconds
    enable_bot,        \* SocketConfig.ENABLE_BOT_MATCHMAKING
    active_matches,    \* MatchManager.active_matches: match id -> MatchRoom
    match_count,       \* number of match ids uuid4() has handed out
    player_to_match,   \* MatchManager.player_to_match
    sid_to_user,       \* MatchManager.sid_to_user
    matchmaking_queue, \* MatchManager.matchmaking_queue: key -> list of entries
    device_to_users,   \* SecurityMemoryStore.device_to_users
    security_store,    \* the other tables of the SecurityMemoryStore instance
    jitter_profiles,   \* JitterDetector.profiles: user id -> LatencyProfile
    shield_log,        \* history: the requests that reached the rate-limit check
    active_players,    \* JitterDetector.active_players: user id -> last seen
    recent_disconnects, \* JitterDetector.recent_disconnects: list of (user id, time)
    fee_result,       \* what RakeCalculator.calculate_fee returned last, and for which bet
    ludo_games,        \* websocket_handler.ludo_games: match id -> engine state
    tasks,             \* suspended handler coroutines
    ledger,            \* the TreasuryLedger instance
    escrow,            \* amount locked minus amount unlocked, per (match, user)
    last_entry,        \* the LedgerEntry create_match_settlement built last, and its bet
    closed,            \* entry ids committed or rolled back since they were last created
    ever_closed,       \* entry ids ever committed or rolled back
    lock_failed,       \* matches whose soft lock reported failure and finished reverting
    done               \* what the game-over handler that finished last did

vars == <<now, enable_bot, active_matches, match_count, player_to_match, sid_to_user,
          matchmaking_queue, device_to_users, security_store, jitter_profiles,
          shield_log, active_players, recent_disconnects, fee_result,
          ludo_games, tasks, ledger,
          escrow, last_entry, closed, ever_closed, lock_failed, done>>
outageVars == <<active_players, recent_disconnects>>
guardVars == <<security_store, jitter_profiles, shield_log, outageVars, fee_result>>

\* a Python dict: the empty one, one with key k removed, one with key k set
EmptyDict == [x \in {} |-> {}]
DictDel(d, k) == [x \in DOMAIN d \ {k} |-> d[x]]
DictPut(d, k, v) == [x \in DOMAIN d \cup {k} |-> IF x = k THEN v ELSE d[x]]

\* SecurityMemoryStore.__init__ (device_to_users is the variable of that name)
SecurityMemoryStore ==
    [ip_to_users |-> EmptyDict, match_requests |-> EmptyDict,
     failed_matches |-> EmptyDict, user_ips |-> EmptyDict,
     quarantine |-> EmptyDict, encounter_history |-> EmptyDict]

-----------------------------------------------------------------------------
(***************************************************************************)
(* MatchState and MatchManager.transition_state                            *)
(***************************************************************************)
MatchState == {"MATCHMAKING", "LOCKED", "IN_PROGRESS", "VALIDATION",
               "SETTLEMENT", "COMPLETED", "DISPUTED", "CANCELLED"}

\* mutant: the table also lets a room go from IN_PROGRESS straight to SETTLEMENT
valid_transitions_skip(s) ==
    CASE s = "MATCHMAKING" -> {"LOCKED", "CANCELLED"}
      [] s = "LOCKED"      -> {"IN_PROGRESS", "CANCELLED"}
      [] s = "IN_PROGRESS" -> {"VALIDATION", "DISPUTED", "SETTLEMENT"}
      [] s = "VALIDATION"  -> {"SETTLEMENT", "DISPUTED"}
      [] s = "SETTLEMENT"  -> {"COMPLETED", "DISPUTED"}
      [] s = "DISPUTED"    -> {"COMPLETED", "CANCELLED"}
      [] OTHER             -> {}

valid_transitions(s) ==
    CASE s = "MATCHMAKING" -> {"LOCKED", "CANCELLED"}
      [] s = "LOCKED"      -> {"IN_PROGRESS", "CANCELLED"}
      [] s = "IN_PROGRESS" -> {"VALIDATION", "DISPUTED"}
      [] s = "VALIDATION"  -> {"SETTLEMENT", "DISPUTED"}
      [] s = "SETTLEMENT"  -> {"COMPLETED", "DISPUTED"}
      [] s = "DISPUTED"    -> {"COMPLETED", "CANCELLED"}
      [] s = "COMPLETED"   -> {}
      [] s = "CANCELLED"   -> {}

\* MatchmakingEntry: the account, its session and the device of its profile
MatchmakingEntry(user_id, sid, device) ==
    [user_id |-> user_id, sid |-> sid, device_fingerprint |-> device]

\* the MatchRoom built by _create_match for the entries e1, e2 (the dict
\* room.players keeps them in this order); is_ready, escrow_confirmed and
\* is_connected are the sets of players whose PlayerConnection has the flag
\* set.  disconnected_at is not a field of the source: it keeps, for each
\* player whose is_connected was cleared, the time at which that happened.
MatchRoom(e1, e2, bet) ==
    [state |-> "MATCHMAKING", bet_amount |-> bet,
     players |-> <<e1.user_id, e2.user_id>>,
     sid |-> DictPut(DictPut(EmptyDict, e1.user_id, e1.sid), e2.user_id, e2.sid),
     device_fingerprint |-> DictPut(DictPut(EmptyDict, e1.user_id, e1.device_fingerprint),
                                    e2.user_id, e2.device_fingerprint),
     is_ready |-> {}, escrow_confirmed |-> {},
     is_connected |-> {e1.user_id, e2.user_id}, disconnected_at |-> EmptyDict,
     locked_at |-> None, started_at |-> None, ledger_entry_id |-> None,
     moves_log |-> <<>>, move_sequence |-> 0]

RoomPlayers(room) == {room.players[i] : i \in DOMAIN room.players}

\* mutant: the FSM table is not consulted
transition_state_unchecked(rs, m, new, t) ==
    IF m \notin DOMAIN rs THEN [ret |-> FALSE, rooms |-> rs]
    ELSE [ret |-> TRUE,
          rooms |-> [rs EXCEPT ![m] =
                        [@ EXCEPT !.state = new,
                                  !.locked_at = IF new = "LOCKED" THEN Some(t) ELSE @,
                                  !.started_at = IF new = "IN_PROGRESS" THEN Some(t) ELSE @]]]

\* transition_state(match_id, new_state) on the rooms rs at time t:
\* its return value and the rooms afterwards
transition_state(rs, m, new, t) ==
    IF m \notin DOMAIN rs THEN [ret |-> FALSE, rooms |-> rs]
    ELSE IF new \notin valid_transitions(rs[m].state) THEN [ret |-> FALSE, rooms |-> rs]
    ELSE [ret |-> TRUE,
          rooms |-> [rs EXCEPT ![m] =
                        [@ EXCEPT !.state = new,
                                  !.locked_at = IF new = "LOCKED" THEN Some(t) ELSE @,
                                  !.started_at = IF new = "IN_PROGRESS" THEN Some(t) ELSE @]]]

-----------------------------------------------------------------------------
(***************************************************************************)
(* RakeCalculator                                                          *)
(***************************************************************************)
\* Decimal.quantize(Decimal("0.01")) of n/d hundredths, ROUND_HALF_EVEN, n >= 0
quantize(n, d) ==
    LET q == n \div d
        r == n % d
    IN  IF 2 * r < d THEN q
        ELSE IF 2 * r > d THEN q + 1
        ELSE IF q % 2 = 0 THEN q ELSE q + 1

\* mutant: the upper end of a tier is left out
get_rake_tier_open(bet) ==
    IF 100 <= bet /\ bet < 1000 THEN 8
    ELSE IF 1100 <= bet /\ bet < 5000 THEN 6
    ELSE 5

\* RAKE_TIERS and get_rake_tier: the rate, in percent, of the first tier whose
\* [min_bet, max_bet] holds the bet; the last tier when none does
get_rake_tier(bet) ==
    IF 100 <= bet /\ bet <= 1000 THEN 8
    ELSE IF 1100 <= bet /\ bet <= 5000 THEN 6
    ELSE 5

calculate_fee(bet, num_players) ==
    LET fee_per_player == quantize(bet * get_rake_tier(bet), 100)
        total_pot      == bet * num_players
        total_fee      == fee_per_player * num_players
    IN  [bet_per_player |-> bet,
         fee_per_player |-> fee_per_player,
         total_pot      |-> total_pot,
         total_fee      |-> total_fee,
         winner_prize   |-> total_pot - total_fee,
         rake_rate      |-> get_rake_tier(bet)]

-----------------------------------------------------------------------------
(***************************************************************************)
(* LedgerEntry and TreasuryLedger                                          *)
(***************************************************************************)
\* mutant: the balance equation is never refused
validate_balance_equation_always(entry) == TRUE

validate_balance_equation(entry) ==
    entry.debit_amount = entry.credit_amount + entry.rake_amount

\* entry_id = f"LED-{match_id[:8]}-{int(time.time())}": the match and the second
EntryId(match_id, t) == <<match_id, t>>

\* TreasuryLedger.__init__
TreasuryLedger == [entries |-> <<>>, treasury_balance |-> 0, pending_entries |-> EmptyDict]

\* the LedgerEntry that create_match_settlement constructs (lines 959-990)
NewLedgerEntry(match_id, winner_id, loser_id, bet, t) ==
    LET rake_result == calculate_fee(bet, 2)
    IN  [entry_id      |-> EntryId(match_id, t),
         match_id      |-> match_id,
         debitor_id    |-> loser_id,
         creditor_id   |-> winner_id,
         debit_amount  |-> bet,
         credit_amount |-> rake_result.winner_prize,
         rake_amount   |-> rake_result.total_fee,
         status        |-> "PENDING"]

\* create_match_settlement: raised is TRUE when it raises ValueError
create_match_settlement(L, match_id, winner_id, loser_id, bet, t) ==
    LET entry == NewLedgerEntry(match_id, winner_id, loser_id, bet, t)
    IN  IF ~validate_balance_equation(entry)
        THEN [raised |-> TRUE, entry |-> entry, ledger |-> L]
        ELSE [raised |-> FALSE, entry |-> entry,
              ledger |-> [L EXCEPT !.pending_entries = DictPut(@, entry.entry_id, entry)]]

\* mutant: the committed entry stays in pending_entries
commit_entry_keeps_pending(L, entry_id) ==
    IF entry_id \notin DOMAIN L.pending_entries THEN [ret |-> FALSE, ledger |-> L]
    ELSE LET entry == [L.pending_entries[entry_id] EXCEPT !.status = "COMMITTED"]
         IN  [ret |-> TRUE,
              ledger |-> [L EXCEPT !.entries = Append(@, entry),
                                   !.treasury_balance = @ + entry.rake_amount]]

commit_entry(L, entry_id) ==
    IF entry_id \notin DOMAIN L.pending_entries THEN [ret |-> FALSE, ledger |-> L]
    ELSE LET entry == [L.pending_entries[entry_id] EXCEPT !.status = "COMMITTED"]
         IN  [ret |-> TRUE,
              ledger |-> [entries          |-> Append(L.entries, entry),
                          treasury_balance |-> L.treasury_balance + entry.rake_amount,
                          pending_entries  |-> DictDel(L.pending_entries, entry_id)]]

\* mutant: the rolled back entry stays in pending_entries
rollback_entry_keeps_pending(L, entry_id) ==
    [ret |-> entry_id \in DOMAIN L.pending_entries, ledger |-> L]

rollback_entry(L, entry_id) ==
    IF entry_id \notin DOMAIN L.pending_entries THEN [ret |-> FALSE, ledger |-> L]
    ELSE [ret |-> TRUE,
          ledger |-> [L EXCEPT !.pending_entries = DictDel(@, entry_id)]]


-----------------------------------------------------------------------------
(***************************************************************************)
(* State after construction, and the parts each specification leaves alone *)
(***************************************************************************)
InitManager ==
    /\ active_matches = EmptyDict
    /\ match_count = 0
    /\ player_to_match = EmptyDict
    /\ sid_to_user = EmptyDict
    /\ matchmaking_queue = [b \in Bets |-> <<>>]
    /\ device_to_users = EmptyDict
    /\ security_store = SecurityMemoryStore
    /\ jitter_profiles = EmptyDict
    /\ shield_log = <<>>
    /\ active_players = EmptyDict
    /\ recent_disconnects = <<>>
    /\ fee_result = None
    /\ ludo_games = EmptyDict
    /\ tasks = [t \in TaskIds |-> [kind |-> "idle"]]
    /\ escrow = [k \in MatchIds \X Users |-> 0]
    /\ lock_failed = {}
    /\ done = None

InitLedger ==
    /\ ledger = TreasuryLedger
    /\ last_entry = None
    /\ closed = {}
    /\ ever_closed = {}

managerVars == <<enable_bot, active_matches, match_count, player_to_match, sid_to_user,
                 matchmaking_queue, device_to_users, guardVars, ludo_games, tasks,
                 escrow, lock_failed, done>>
ledgerVars == <<ledger, last_entry, closed, ever_closed>>

\* the clock advances by a second
Tick ==
    /\ now < MaxTime
    /\ now' = now + 1
    /\ UNCHANGED <<managerVars, ledgerVars>>

\* _create_match for the entries e1, e2 of a pairing: the new match id (uuid4
\* never repeats) and the manager's maps afterwards
create_match(e1, e2, bet) ==
    LET match_id == match_count + 1
    IN  [match_id        |-> match_id,
         active_matches  |-> DictPut(active_matches, match_id, MatchRoom(e1, e2, bet)),
         player_to_match |-> DictPut(DictPut(player_to_match, e1.user_id, match_id),
                                     e2.user_id, match_id),
         sid_to_user     |-> DictPut(DictPut(sid_to_user, e1.sid, e1.user_id),
                                     e2.sid, e2.user_id)]

\* cleanup_match: the manager's maps after the room is dropped
cleanup_match(rs, p2m, s2u, m) ==
    IF m \notin DOMAIN rs
    THEN [active_matches |-> rs, player_to_match |-> p2m, sid_to_user |-> s2u]
    ELSE [active_matches  |-> DictDel(rs, m),
          player_to_match |-> [u \in DOMAIN p2m \ RoomPlayers(rs[m]) |-> p2m[u]],
          sid_to_user     |-> [x \in DOMAIN s2u \ {rs[m].sid[u] : u \in RoomPlayers(rs[m])}
                                  |-> s2u[x]]]

-----------------------------------------------------------------------------
(***************************************************************************)
(* SpecFSM: MatchManager.transition_state called with any match id and any *)
(* target state, on rooms as _create_match leaves them.                    *)
(***************************************************************************)
FsmMatchIds == 1..(FsmRooms + 1)    \* the last one is never created

InitFSM ==
    /\ now = 0
    /\ enable_bot = TRUE
    /\ InitManager
    /\ InitLedger

CreateMatch(p1, p2, bet) ==
    /\ match_count < FsmRooms
    /\ LET r == create_match(MatchmakingEntry(p1, p1, p1), MatchmakingEntry(p2, p2, p2), bet)
       IN  /\ match_count' = r.match_id
           /\ active_matches' = r.active_matches
           /\ player_to_match' = r.player_to_match
           /\ sid_to_user' = r.sid_to_user
    /\ UNCHANGED <<now, enable_bot, guardVars, matchmaking_queue, device_to_users, ludo_games,
                   tasks, escrow, lock_failed, done, ledgerVars>>

TransitionState(m, new) ==
    /\ active_matches' = transition_state(active_matches, m, new, now).rooms
    /\ UNCHANGED <<now, enable_bot, guardVars, match_count, player_to_match, sid_to_user,
                   matchmaking_queue, device_to_users, ludo_games, tasks,
                   escrow, lock_failed, done, ledgerVars>>

NextFSM ==
    \/ Tick
    \/ CreateMatch("alice", "bob", 2500)
    \/ \E m \in FsmMatchIds, new \in MatchState : TransitionState(m, new)

SpecFSM == InitFSM /\ [][NextFSM]_vars

-----------------------------------------------------------------------------
(***************************************************************************)
(* SpecLedger: create_match_settlement, commit_entry and rollback_entry    *)
(* called in any order on one TreasuryLedger.                              *)
(***************************************************************************)
LedgerEntryIds == {EntryId(m, t) : m \in LedgerMatches, t \in Times}

InitLedgerHarness ==
    /\ now = 0
    /\ enable_bot = TRUE
    /\ InitManager
    /\ InitLedger

CreateMatchSettlement(match_id, winner_id, loser_id, bet) ==
    LET r == create_match_settlement(ledger, match_id, winner_id, loser_id, bet, now)
    IN  /\ ledger' = r.ledger
        /\ last_entry' = Some([bet |-> bet, entry |-> r.entry])
        /\ closed' = IF r.raised THEN closed ELSE closed \ {r.entry.entry_id}
        /\ UNCHANGED <<now, ever_closed, managerVars>>

CommitEntry(entry_id) ==
    LET r == commit_entry(ledger, entry_id)
    IN  /\ Len(ledger.entries) < MaxEntries
        /\ ledger' = r.ledger
        /\ closed' = IF r.ret THEN closed \cup {entry_id} ELSE closed
        /\ ever_closed' = IF r.ret THEN ever_closed \cup {entry_id} ELSE ever_closed
        /\ UNCHANGED <<now, last_entry, managerVars>>

RollbackEntry(entry_id) ==
    LET r == rollback_entry(ledger, entry_id)
    IN  /\ ledger' = r.ledger
        /\ closed' = IF r.ret THEN closed \cup {entry_id} ELSE closed
        /\ ever_closed' = IF r.ret THEN ever_closed \cup {entry_id} ELSE ever_closed
        /\ UNCHANGED <<now, last_entry, managerVars>>

NextLedger ==
    \/ Tick
    \/ \E m \in LedgerMatches, bet \in LedgerBets :
          CreateMatchSettlement(m, "alice", "bob", bet)
    \/ \E id \in LedgerEntryIds : CommitEntry(id)
    \/ \E id \in LedgerEntryIds : RollbackEntry(id)

SpecLedger == InitLedgerHarness /\ [][NextLedger]_vars

-----------------------------------------------------------------------------
(***************************************************************************)
(* Spec: the socket handlers of websocket_handler.py on one MatchManager,  *)
(* one TreasuryLedger and the ludo_games dict.                             *)
(*                                                                         *)
(* A handler runs without interruption up to an await that really yields   *)
(* (a send to a client, a call to the balance store); there it becomes a   *)
(* record in tasks and any other handler may run.  The methods of          *)
(* MatchManager and TreasuryLedger never yield.  A handler with no state   *)
(* change after its first yield is one action.  Each account uses one      *)
(* connection, whose sid is written like the account.  The balance store   *)
(* is outside the program (the functions standing in for it answer with    *)
(* constants), so each of its answers is an input.  The board is not       *)
(* represented here: an engine in play may report game_over on a move of   *)
(* any of its players.                                                     *)
(***************************************************************************)
\* the device an account joins from
DeviceOf(u) == u
\* LKBotConfig.BOT_USER_ID
BOT_USER_ID == "00000000-0000-0000-0000-000000000001"

\* LKBot.is_bot_user
is_bot_user(u) == u = BOT_USER_ID

all_players_ready_always(room) == TRUE

\* MatchRoom.all_players_ready
all_players_ready(room) ==
    \A u \in RoomPlayers(room) : is_bot_user(u) \/ u \in room.is_ready

all_escrow_confirmed_always(room) == TRUE

\* MatchRoom.all_escrow_confirmed
all_escrow_confirmed(room) ==
    \A u \in RoomPlayers(room) : is_bot_user(u) \/ u \in room.escrow_confirmed

\* SecurityMemoryStore.record_device_usage
record_device_usage(d2u, user_id, device) ==
    DictPut(d2u, device, (IF device \in DOMAIN d2u THEN d2u[device] ELSE {}) \cup {user_id})

collusion_suspected_never(d2u, room) == FALSE

\* LKShield.check_collusion, as _handle_match_found reads it: suspicious with
\* risk HIGH or CRITICAL (both profiles are built with ip_address of the
\* connections; a shared address alone gives MEDIUM)
collusion_suspected(d2u, room) ==
    LET p1 == room.players[1]
        p2 == room.players[2]
        users_from_device1 == IF room.device_fingerprint[p1] \in DOMAIN d2u
                              THEN d2u[room.device_fingerprint[p1]] ELSE {}
    IN  \/ room.device_fingerprint[p1] = room.device_fingerprint[p2]
        \/ p2 \in users_from_device1

\* index of the first queued entry of another account, 0 if there is none
first_opponent(queue, user_id) ==
    IF \E i \in DOMAIN queue : queue[i].user_id # user_id
    THEN CHOOSE i \in DOMAIN queue :
            /\ queue[i].user_id # user_id
            /\ \A j \in 1..(i-1) : queue[j].user_id = user_id
    ELSE 0

\* list.pop(i)
Pop(q, i) == [j \in 1..(Len(q) - 1) |-> IF j < i THEN q[j] ELSE q[j + 1]]

IdleTask == [kind |-> "idle"]

\* the slot a handler that yields is kept in
FreeSlot(t) ==
    /\ tasks[t].kind = "idle"
    /\ \A t2 \in TaskIds : t2 < t => tasks[t2].kind # "idle"

\* ENABLE_BOT_MATCHMAKING is a setting of SocketConfig, True in the source.
\* With True every join that finds no opponent queued ends in the TypeError
\* of _create_bot_entry, nothing is ever queued and no room is created; the
\* rooms of this specification are those of a deployment that sets it False.
Init ==
    /\ now = 0
    /\ enable_bot \in BOOLEAN
    /\ InitManager
    /\ InitLedger

\* add_to_matchmaking for entry under the queue key of bet: whether it
\* raised, the room it returned (None when it queued the entry or raised),
\* and the queue and the manager's maps afterwards
add_to_matchmaking(entry, bet) ==
    LET queue == matchmaking_queue[bet]
        i     == first_opponent(queue, entry.user_id)
        r     == create_match(entry, queue[i], bet)
        same  == [raised |-> FALSE, room |-> None, queue |-> queue,
                  match_count |-> match_count, active_matches |-> active_matches,
                  player_to_match |-> player_to_match, sid_to_user |-> sid_to_user]
    IN  IF i # 0
        THEN [raised |-> FALSE, room |-> Some(r.match_id), queue |-> Pop(queue, i),
              match_count |-> r.match_id, active_matches |-> r.active_matches,
              player_to_match |-> r.player_to_match, sid_to_user |-> r.sid_to_user]
        ELSE IF enable_bot
        THEN \* _create_bot_entry raises TypeError: PlayerSecurityProfile has
             \* no field username
             [same EXCEPT !.raised = TRUE]
        ELSE [same EXCEPT !.queue = Append(queue, entry)]

\* join_matchmaking by an account the shield approves: verify_player records
\* the device, add_to_matchmaking pairs or queues (an exception is reported
\* to the client), _handle_match_found drops the room again on suspected
\* collusion; cap bounds the length of the queue, rooms the rooms created
JoinMatchmakingWithin(sid, user_id, bet, device, cap, rooms) ==
    LET entry == MatchmakingEntry(user_id, sid, device)
        d2u   == record_device_usage(device_to_users, user_id, device)
        r     == add_to_matchmaking(entry, bet)
        c     == cleanup_match(r.active_matches, r.player_to_match,
                               r.sid_to_user, r.match_count)
        drop  == r.room # None
                 /\ collusion_suspected(d2u, r.active_matches[r.room[1]])
    IN  /\ match_count < rooms
        /\ Len(r.queue) <= cap
        /\ device_to_users' = d2u
        /\ matchmaking_queue' = [matchmaking_queue EXCEPT ![bet] = r.queue]
        /\ match_count' = r.match_count
        /\ active_matches' = IF drop THEN c.active_matches ELSE r.active_matches
        /\ player_to_match' = IF drop THEN c.player_to_match ELSE r.player_to_match
        /\ sid_to_user' = IF drop THEN c.sid_to_user ELSE r.sid_to_user
        /\ UNCHANGED <<now, enable_bot, guardVars, ludo_games, tasks, escrow, lock_failed, done, ledgerVars>>

JoinMatchmakingUpTo(sid, user_id, bet, device, cap) ==
    JoinMatchmakingWithin(sid, user_id, bet, device, cap, MaxMatches)

JoinMatchmaking(sid, user_id, bet, device) ==
    JoinMatchmakingUpTo(sid, user_id, bet, device, MaxQueue)

\* player_ready up to the send of player_ready_update
PlayerReady(sid, m) ==
    /\ sid \in DOMAIN sid_to_user
    /\ m \in DOMAIN active_matches
    /\ sid_to_user[sid] \in RoomPlayers(active_matches[m])
    /\ active_matches' = [active_matches EXCEPT ![m].is_ready = @ \cup {sid_to_user[sid]}]
    /\ \E t \in TaskIds :
          /\ FreeSlot(t)
          /\ tasks' = [tasks EXCEPT ![t] =
                 [kind |-> "player_ready", pc |-> "notified", m |-> m,
                  players |-> active_matches[m].players,
                  bet |-> active_matches[m].bet_amount,
                  i |-> 1, locked_users |-> <<>>]]
    /\ UNCHANGED <<now, enable_bot, guardVars, match_count, player_to_match, sid_to_user,
                   matchmaking_queue, device_to_users, ludo_games, escrow,
                   lock_failed, done, ledgerVars>>

\* player_ready after the send: all_players_ready, then _transition_to_locked
\* up to the first call of the balance store
TransitionToLocked(t) ==
    /\ tasks[t].kind = "player_ready"
    /\ tasks[t].pc = "notified"
    /\ LET m == tasks[t].m
           r == transition_state(active_matches, m, "LOCKED", now)
       IN  IF m \in DOMAIN active_matches /\ all_players_ready(active_matches[m]) /\ r.ret
           THEN /\ active_matches' = r.rooms
                /\ tasks' = [tasks EXCEPT ![t].pc = "soft_lock"]
           ELSE /\ tasks' = [tasks EXCEPT ![t] = IdleTask]
                /\ UNCHANGED active_matches
    /\ UNCHANGED <<now, enable_bot, guardVars, match_count, player_to_match, sid_to_user,
                   matchmaking_queue, device_to_users, ludo_games, escrow,
                   lock_failed, done, ledgerVars>>

\* _execute_soft_lock: one turn of the loop, for the player at position i;
\* sufficient is the answer of _get_user_balance compared with the bet,
\* locked the answer of _lock_user_balance
ExecuteSoftLock(t, sufficient, locked) ==
    /\ tasks[t].kind = "player_ready"
    /\ tasks[t].pc = "soft_lock"
    /\ LET m == tasks[t].m
           u == tasks[t].players[tasks[t].i]
       IN  IF sufficient /\ locked
           THEN /\ escrow' = [escrow EXCEPT ![<<m, u>>] = @ + tasks[t].bet]
                /\ tasks' = IF tasks[t].i = Len(tasks[t].players)
                            THEN [tasks EXCEPT ![t] = IdleTask]
                            ELSE [tasks EXCEPT ![t].i = @ + 1,
                                               ![t].locked_users = Append(@, u)]
           ELSE /\ tasks' = [tasks EXCEPT ![t].pc = "revert"]
                /\ UNCHANGED escrow
    /\ UNCHANGED <<now, enable_bot, guardVars, active_matches, match_count, player_to_match,
                   sid_to_user, matchmaking_queue, device_to_users, ludo_games,
                   lock_failed, done, ledgerVars>>

\* the except branch of _execute_soft_lock and the revert of
\* _transition_to_locked: unlock what was locked, ask for CANCELLED
RevertSoftLock(t) ==
    /\ tasks[t].kind = "player_ready"
    /\ tasks[t].pc = "revert"
    /\ LET m == tasks[t].m
           unlocked == {tasks[t].locked_users[j] : j \in DOMAIN tasks[t].locked_users}
       IN  /\ escrow' = [k \in DOMAIN escrow |->
                            IF k[1] = m /\ k[2] \in unlocked
                            THEN escrow[k] - tasks[t].bet ELSE escrow[k]]
           /\ active_matches' = transition_state(active_matches, m, "CANCELLED", now).rooms
           /\ lock_failed' = lock_failed \cup {m}
    /\ tasks' = [tasks EXCEPT ![t] = IdleTask]
    /\ UNCHANGED <<now, enable_bot, guardVars, match_count, player_to_match, sid_to_user,
                   matchmaking_queue, device_to_users, ludo_games, done, ledgerVars>>

\* confirm_escrow and _start_match: the rooms afterwards; the handler returns
\* early for an unknown session, an unknown room and a room that is not
\* LOCKED, and room.players[user_id] raises KeyError for an account that is
\* not in the room
confirm_escrow(rs, s2u, sid, m, t) ==
    IF \/ sid \notin DOMAIN s2u
       \/ m \notin DOMAIN rs
    THEN rs
    ELSE IF \/ rs[m].state # "LOCKED"
            \/ s2u[sid] \notin RoomPlayers(rs[m])
    THEN rs
    ELSE LET confirmed == [rs EXCEPT ![m].escrow_confirmed = @ \cup {s2u[sid]}]
         IN  IF all_escrow_confirmed(confirmed[m])
             THEN transition_state(confirmed, m, "IN_PROGRESS", t).rooms
             ELSE confirmed

ConfirmEscrow(sid, m) ==
    /\ sid \in DOMAIN sid_to_user
    /\ m \in DOMAIN active_matches
    /\ active_matches' = confirm_escrow(active_matches, sid_to_user, sid, m, now)
    /\ UNCHANGED <<now, enable_bot, guardVars, match_count, player_to_match, sid_to_user,
                   matchmaking_queue, device_to_users, ludo_games, tasks, escrow,
                   lock_failed, done, ledgerVars>>

\* submit_game_result
SubmitGameResult(sid, m) ==
    /\ sid \in DOMAIN sid_to_user
    /\ m \in DOMAIN active_matches
    /\ active_matches[m].state = "IN_PROGRESS"
    /\ active_matches' = transition_state(active_matches, m, "VALIDATION", now).rooms
    /\ UNCHANGED <<now, enable_bot, guardVars, match_count, player_to_match, sid_to_user,
                   matchmaking_queue, device_to_users, ludo_games, tasks, escrow,
                   lock_failed, done, ledgerVars>>

\* LudoEngine(match_id, player_ids) after start_game
LudoEngine(player_ids) == [state |-> "ROLLING", player_order |-> player_ids]

\* ludo_start_game
LudoStartGame(sid, m) ==
    /\ sid \in DOMAIN sid_to_user
    /\ m \in DOMAIN active_matches
    /\ active_matches[m].state = "IN_PROGRESS"
    /\ ludo_games' = DictPut(ludo_games, m, LudoEngine(active_matches[m].players))
    /\ UNCHANGED <<now, enable_bot, guardVars, active_matches, match_count, player_to_match,
                   sid_to_user, matchmaking_queue, device_to_users, tasks, escrow,
                   lock_failed, done, ledgerVars>>

\* ludo_move_piece whose move wins the game (_handle_victory), up to the
\* send of ludo:piece_moved; the winner is the account that moved
LudoMovePiece(sid, m) ==
    /\ sid \in DOMAIN sid_to_user
    /\ m \in DOMAIN ludo_games
    /\ m \in DOMAIN active_matches
    /\ ludo_games[m].state = "ROLLING"
    /\ \E j \in DOMAIN ludo_games[m].player_order :
          ludo_games[m].player_order[j] = sid_to_user[sid]
    /\ Len(ledger.entries) < MaxEntries
    /\ ludo_games' = [ludo_games EXCEPT ![m].state = "COMPLETED"]
    /\ \E t \in TaskIds :
          /\ FreeSlot(t)
          /\ tasks' = [tasks EXCEPT ![t] =
                 [kind |-> "game_over", pc |-> "moved", m |-> m,
                  players |-> active_matches[m].players,
                  bet |-> active_matches[m].bet_amount,
                  winner |-> sid_to_user[sid],
                  from_state |-> active_matches[m].state,
                  entry_id |-> None, escrow |-> "none", committed |-> FALSE,
                  delta |-> 0, failed |-> FALSE]]
    /\ UNCHANGED <<now, enable_bot, guardVars, active_matches, match_count, player_to_match,
                   sid_to_user, matchmaking_queue, device_to_users, escrow,
                   lock_failed, done, ledgerVars>>

\* _handle_ludo_game_over up to the call of _settle_escrow, or up to the
\* send of the error when create_match_settlement raises
SettleMatch(t) ==
    /\ tasks[t].kind = "game_over"
    /\ tasks[t].pc = "moved"
    /\ LET m        == tasks[t].m
           winner   == tasks[t].winner
           loser    == IF tasks[t].players[2] = winner
                       THEN tasks[t].players[1] ELSE tasks[t].players[2]
           rs       == transition_state(active_matches, m, "SETTLEMENT", now).rooms
           r        == create_match_settlement(ledger, m, winner, loser, tasks[t].bet, now)
       IN  /\ ledger' = r.ledger
           /\ last_entry' = Some([bet |-> tasks[t].bet, entry |-> r.entry])
           /\ IF r.raised
              THEN /\ active_matches' = rs
                   /\ tasks' = [tasks EXCEPT ![t].pc = "final", ![t].failed = TRUE]
                   /\ UNCHANGED closed
              ELSE /\ active_matches' =
                          IF m \in DOMAIN rs
                          THEN [rs EXCEPT ![m].ledger_entry_id = Some(r.entry.entry_id)]
                          ELSE rs
                   /\ tasks' = [tasks EXCEPT ![t].pc = "settle_escrow",
                                             ![t].entry_id = Some(r.entry.entry_id)]
                   /\ closed' = closed \ {r.entry.entry_id}
    /\ UNCHANGED <<now, enable_bot, guardVars, match_count, player_to_match, sid_to_user,
                   matchmaking_queue, device_to_users, ludo_games, escrow,
                   lock_failed, done, ever_closed>>

\* _handle_ludo_game_over from the answer of _settle_escrow to the sends
\* that follow: commit_entry on success, rollback_entry and the error on
\* failure
SettleEscrow(t, settlement_success) ==
    /\ tasks[t].kind = "game_over"
    /\ tasks[t].pc = "settle_escrow"
    /\ LET id == tasks[t].entry_id[1]
           r  == IF settlement_success THEN commit_entry(ledger, id)
                                       ELSE rollback_entry(ledger, id)
       IN  /\ ledger' = r.ledger
           /\ closed' = IF r.ret THEN closed \cup {id} ELSE closed
           /\ ever_closed' = IF r.ret THEN ever_closed \cup {id} ELSE ever_closed
           /\ tasks' = [tasks EXCEPT
                  ![t].pc = "final",
                  ![t].escrow = IF settlement_success THEN "ok" ELSE "failed",
                  ![t].committed = settlement_success /\ r.ret,
                  ![t].failed = ~settlement_success,
                  ![t].delta = r.ledger.treasury_balance - ledger.treasury_balance]
    /\ UNCHANGED <<now, enable_bot, guardVars, active_matches, match_count, player_to_match,
                   sid_to_user, matchmaking_queue, device_to_users, ludo_games,
                   escrow, lock_failed, done, last_entry>>

\* the end of _handle_ludo_game_over: drop the engine, ask for COMPLETED,
\* cleanup_match
FinishGameOver(t) ==
    /\ tasks[t].kind = "game_over"
    /\ tasks[t].pc = "final"
    /\ LET m  == tasks[t].m
           r  == transition_state(active_matches, m, "COMPLETED", now)
           c  == cleanup_match(r.rooms, player_to_match, sid_to_user, m)
       IN  /\ ludo_games' = DictDel(ludo_games, m)
           /\ active_matches' = c.active_matches
           /\ player_to_match' = c.player_to_match
           /\ sid_to_user' = c.sid_to_user
           /\ done' = Some(
                  [m |-> m, bet |-> tasks[t].bet, from_state |-> tasks[t].from_state,
                   created |-> tasks[t].entry_id # None, escrow |-> tasks[t].escrow,
                   committed |-> tasks[t].committed,
                   delta |-> tasks[t].delta, failed |-> tasks[t].failed,
                   completed |-> r.ret, removed |-> m \in DOMAIN active_matches])
    /\ tasks' = [tasks EXCEPT ![t] = IdleTask]
    /\ UNCHANGED <<now, enable_bot, guardVars, match_count, matchmaking_queue, device_to_users,
                   escrow, lock_failed, ledgerVars>>

Next ==
    \/ Tick
    \/ \E u \in Users, bet \in Bets : JoinMatchmaking(u, u, bet, DeviceOf(u))
    \/ \E sid \in Users, m \in MatchIds : PlayerReady(sid, m)
    \/ \E t \in TaskIds : TransitionToLocked(t)
    \/ \E t \in TaskIds, sufficient \in BOOLEAN, locked \in BOOLEAN :
          ExecuteSoftLock(t, sufficient, locked)
    \/ \E t \in TaskIds : RevertSoftLock(t)
    \/ \E sid \in Users, m \in MatchIds : ConfirmEscrow(sid, m)
    \/ \E sid \in Users, m \in MatchIds : SubmitGameResult(sid, m)
    \/ \E sid \in Users, m \in MatchIds : LudoStartGame(sid, m)
    \/ \E sid \in Users, m \in MatchIds : LudoMovePiece(sid, m)
    \/ \E t \in TaskIds : SettleMatch(t)
    \/ \E t \in TaskIds, settlement_success \in BOOLEAN : SettleEscrow(t, settlement_success)
    \/ \E t \in TaskIds : FinishGameOver(t)

Spec == Init /\ [][Next]_vars

-----------------------------------------------------------------------------
(***************************************************************************)
(* SpecTimers: the life of a room up to VALIDATION while time passes and   *)
(* sessions disconnect.  Time passes in steps longer than the two waiting  *)
(* periods of SocketConfig; the source starts no timer, so nothing holds   *)
(* such a step back.  A suspended handler is resumed sooner or later (the  *)
(* event loop runs every coroutine that is ready, and the sends and store  *)
(* calls return); whether clients send anything is up to them.             *)
(***************************************************************************)
ESCROW_CONFIRMATION_TIMEOUT == 10
GRACE_PERIOD == 45
TimerBets == {2500}

\* disconnect: the rooms afterwards
disconnect(rs, p2m, s2u, sid, t) ==
    IF sid \notin DOMAIN s2u THEN rs
    ELSE LET user_id == s2u[sid]
         IN  IF user_id \notin DOMAIN p2m THEN rs
             ELSE LET m == p2m[user_id]
                  IN  IF /\ m \in DOMAIN rs
                         /\ rs[m].state \in {"LOCKED", "IN_PROGRESS"}
                         /\ user_id \in RoomPlayers(rs[m])
                      THEN [rs EXCEPT ![m].is_connected = @ \ {user_id},
                                      ![m].disconnected_at =
                                          IF user_id \in rs[m].is_connected
                                          THEN DictPut(@, user_id, t) ELSE @]
                      ELSE rs

Disconnect(sid) ==
    /\ sid \in DOMAIN sid_to_user
    /\ active_matches' = disconnect(active_matches, player_to_match, sid_to_user, sid, now)
    /\ UNCHANGED <<now, enable_bot, guardVars, match_count, player_to_match, sid_to_user,
                   matchmaking_queue, device_to_users, ludo_games, tasks, escrow,
                   lock_failed, done, ledgerVars>>

\* d seconds pass
Elapse(d) ==
    /\ now + d <= MaxClock
    /\ now' = now + d
    /\ UNCHANGED <<managerVars, ledgerVars>>

InitTimers ==
    /\ now = 0
    /\ enable_bot = FALSE
    /\ InitManager
    /\ InitLedger

NextTimers ==
    \/ \E d \in {ESCROW_CONFIRMATION_TIMEOUT + 1, GRACE_PERIOD + 1} : Elapse(d)
    \/ \E u \in Users, bet \in TimerBets : JoinMatchmaking(u, u, bet, DeviceOf(u))
    \/ \E sid \in Users, m \in MatchIds : PlayerReady(sid, m)
    \/ \E t \in TaskIds : TransitionToLocked(t)
    \/ \E t \in TaskIds, sufficient \in BOOLEAN, locked \in BOOLEAN :
          ExecuteSoftLock(t, sufficient, locked)
    \/ \E t \in TaskIds : RevertSoftLock(t)
    \/ \E sid \in Users, m \in MatchIds : ConfirmEscrow(sid, m)
    \/ \E sid \in Users, m \in MatchIds : SubmitGameResult(sid, m)
    \/ \E sid \in Users : Disconnect(sid)

\* every suspended handler is resumed
ResumeTasks ==
    /\ WF_vars(\E t \in TaskIds : TransitionToLocked(t))
    /\ WF_vars(\E t \in TaskIds, sufficient \in BOOLEAN, locked \in BOOLEAN :
                  ExecuteSoftLock(t, sufficient, locked))
    /\ WF_vars(\E t \in TaskIds : RevertSoftLock(t))

SpecTimers == InitTimers /\ [][NextTimers]_vars /\ ResumeTasks

-----------------------------------------------------------------------------
(***************************************************************************)
(* SpecMatchmaking: join_matchmaking from either of two devices and        *)
(* cancel_matchmaking, in any order, and the way of a room to LOCKED.      *)
(***************************************************************************)
Devices == {"d1", "d2"}

remove_from_matchmaking_keeps(queues, user_id, bet) == queues

\* MatchManager.remove_from_matchmaking
remove_from_matchmaking(queues, user_id, bet) ==
    [queues EXCEPT ![bet] = SelectSeq(@, LAMBDA e : e.user_id # user_id)]

\* cancel_matchmaking: the queues afterwards
cancel_matchmaking(queues, s2u, sid, bet) ==
    IF sid \notin DOMAIN s2u THEN queues
    ELSE remove_from_matchmaking(queues, s2u[sid], bet)

CancelMatchmaking(sid, bet) ==
    /\ matchmaking_queue' = cancel_matchmaking(matchmaking_queue, sid_to_user, sid, bet)
    /\ UNCHANGED <<now, enable_bot, guardVars, active_matches, match_count, player_to_match,
                   sid_to_user, device_to_users, ludo_games, tasks, escrow,
                   lock_failed, done, ledgerVars>>

InitMatchmaking ==
    /\ now = 0
    /\ enable_bot \in BOOLEAN
    /\ InitManager
    /\ InitLedger

NextMatchmaking ==
    \/ \E u \in Users, bet \in Bets, d \in Devices :
          JoinMatchmakingUpTo(u, u, bet, d, MaxWaiting)
    \/ \E sid \in Users, bet \in Bets : CancelMatchmaking(sid, bet)
    \/ \E sid \in Users, m \in MatchIds : PlayerReady(sid, m)
    \/ \E t \in TaskIds : TransitionToLocked(t)
    \/ \E t \in TaskIds, sufficient \in BOOLEAN, locked \in BOOLEAN :
          ExecuteSoftLock(t, sufficient, locked)
    \/ \E t \in TaskIds : RevertSoftLock(t)

SpecMatchmaking == InitMatchmaking /\ [][NextMatchmaking]_vars

-----------------------------------------------------------------------------
(***************************************************************************)
(* SpecMoves: two players are paired, lock, confirm and send game_move.    *)
(***************************************************************************)
MoveTypes == {"move", "pass"}

record_move_no_increment(rs, m, user_id, move_data, t) ==
    IF m \notin DOMAIN rs THEN [ret |-> -1, rooms |-> rs]
    ELSE [ret |-> rs[m].move_sequence,
          rooms |-> [rs EXCEPT ![m].moves_log =
                        Append(@, [sequence |-> rs[m].move_sequence, player_id |-> user_id,
                                   timestamp |-> t, data |-> move_data])]]

\* MatchManager.record_move: the sequence number returned and the rooms afterwards
record_move(rs, m, user_id, move_data, t) ==
    IF m \notin DOMAIN rs THEN [ret |-> -1, rooms |-> rs]
    ELSE LET seq == rs[m].move_sequence + 1
         IN  [ret |-> seq,
              rooms |-> [rs EXCEPT ![m] =
                            [@ EXCEPT !.move_sequence = seq,
                                      !.moves_log = Append(@, [sequence |-> seq,
                                                               player_id |-> user_id,
                                                               timestamp |-> t,
                                                               data |-> move_data])]]]

\* game_move: record_move does not suspend, and nothing is written after the
\* emit of move_received
GameMove(sid, m, move_type) ==
    /\ sid \in DOMAIN sid_to_user
    /\ m \in DOMAIN active_matches
    /\ active_matches[m].state = "IN_PROGRESS"
    /\ Len(active_matches[m].moves_log) < MaxMoves
    /\ active_matches' = record_move(active_matches, m, sid_to_user[sid], move_type, now).rooms
    /\ UNCHANGED <<now, enable_bot, guardVars, match_count, player_to_match, sid_to_user,
                   matchmaking_queue, device_to_users, ludo_games, tasks, escrow,
                   lock_failed, done, ledgerVars>>

NextMoves ==
    \/ Tick
    \/ \E u \in Users, bet \in TimerBets : JoinMatchmaking(u, u, bet, DeviceOf(u))
    \/ \E sid \in Users, m \in MatchIds : PlayerReady(sid, m)
    \/ \E t \in TaskIds : TransitionToLocked(t)
    \/ \E t \in TaskIds, sufficient \in BOOLEAN, locked \in BOOLEAN :
          ExecuteSoftLock(t, sufficient, locked)
    \/ \E t \in TaskIds : RevertSoftLock(t)
    \/ \E sid \in Users, m \in MatchIds : ConfirmEscrow(sid, m)
    \/ \E sid \in Users, m \in MatchIds, move_type \in MoveTypes : GameMove(sid, m, move_type)

SpecMoves == InitTimers /\ [][NextMoves]_vars

-----------------------------------------------------------------------------
(***************************************************************************)
(* ludo_engine.py: LudoEngine for the two players of a match.  An engine   *)
(* is a record; pieces, pieces_finished and captures_made are per player   *)
(* (LudoPlayer), client_seeds and nonce are the fields of its              *)
(* ProvablyFairDice.  The timestamps (started_at, turn_started_at,         *)
(* last_action) are left out.                                              *)
(***************************************************************************)
BOARD_SIZE            == 52
HOME_STRETCH          == 5
PIECES_PER_PLAYER     == 4
DICE_MIN              == 1
DICE_MAX              == 6
MAX_CONSECUTIVE_SIXES == 3
EXIT_ROLL             == 6
SAFE_POSITIONS        == {0, 8, 13, 21, 26, 34, 39, 47}

PlayerColor == <<"RED", "BLUE", "GREEN", "YELLOW">>

\* LudoPiece as LudoPlayer.__post_init__ creates it
LudoPiece == [state |-> "HOME", position |-> -1, safe_zone_pos |-> -1]

\* hashlib.sha256(text).hexdigest(), with the text given as the tuple of the
\* parts it is formatted from: a term that is equal only for equal texts
sha256(text) == <<"sha256", text>>

\* a server seed as it stands in a result when it is given out unhashed
RawSeed(server_seed) == <<"raw", server_seed>>

\* the part a client seed takes in the first 8 hex digits of a digest
SeedCode(client_seed) ==
    CASE client_seed = "default" -> 0
      [] client_seed = "seed"    -> 1
      [] client_seed = "seed2"   -> 2
      [] OTHER                   -> 3

\* int(hash_result[:8], 16) of the digest of "server_seed:client_seed:nonce".
\* A server seed is written as the sequence of faces that its digests give
\* with the default client seed, nonce by nonce; another client seed gives
\* other digests.
Hex8(digest) ==
    LET server_seed == digest[2][1]
        client_seed == digest[2][2]
        nonce       == digest[2][3]
    IN  (IF nonce \in DOMAIN server_seed THEN server_seed[nonce] - 1 ELSE 0)
        + SeedCode(client_seed)

\* ProvablyFairDice.set_client_seed on the dice of engine g
set_client_seed(g, player_id, seed) ==
    [g EXCEPT !.client_seeds = DictPut(@, player_id, seed)]

roll_reveals_seed(g, player_id) ==
    LET nonce       == g.nonce + 1
        client_seed == IF player_id \in DOMAIN g.client_seeds
                       THEN g.client_seeds[player_id] ELSE "default"
        hash_result == sha256(<<g.server_seed, client_seed, nonce>>)
    IN  [roll |-> [value |-> (Hex8(hash_result) % 6) + 1,
                   server_seed |-> RawSeed(g.server_seed),
                   client_seed |-> client_seed,
                   nonce |-> nonce,
                   hash_proof |-> hash_result],
         engine |-> [g EXCEPT !.nonce = nonce]]

\* ProvablyFairDice.roll on the dice of engine g: the DiceRoll and the engine
\* afterwards
roll(g, player_id) ==
    LET nonce       == g.nonce + 1
        client_seed == IF player_id \in DOMAIN g.client_seeds
                       THEN g.client_seeds[player_id] ELSE "default"
        hash_result == sha256(<<g.server_seed, client_seed, nonce>>)
    IN  [roll |-> [value |-> (Hex8(hash_result) % 6) + 1,
                   server_seed |-> sha256(<<g.server_seed>>),
                   client_seed |-> client_seed,
                   nonce |-> nonce,
                   hash_proof |-> hash_result],
         engine |-> [g EXCEPT !.nonce = nonce]]

verify_roll_default_seed(dice_roll, revealed_server_seed) ==
    LET hash_result == sha256(<<revealed_server_seed, "default", dice_roll.nonce>>)
    IN  /\ (Hex8(hash_result) % 6) + 1 = dice_roll.value
        /\ hash_result = dice_roll.hash_proof

\* ProvablyFairDice.verify_roll
verify_roll(dice_roll, revealed_server_seed) ==
    LET hash_result == sha256(<<revealed_server_seed, dice_roll.client_seed, dice_roll.nonce>>)
    IN  /\ (Hex8(hash_result) % 6) + 1 = dice_roll.value
        /\ hash_result = dice_roll.hash_proof

\* ProvablyFairDice.get_verification_data: what it holds of the server seed
get_verification_data(g) == {RawSeed(g.server_seed), sha256(<<g.server_seed>>)}

\* LudoEngine.__init__ with the server seed that secrets.token_hex gives
NewLudoEngine(players, server_seed) ==
    [state |-> "WAITING",
     server_seed |-> server_seed,
     player_order |-> players,
     color |-> [u \in {players[i] : i \in DOMAIN players} |->
                   PlayerColor[CHOOSE i \in DOMAIN players : players[i] = u]],
     pieces |-> [u \in {players[i] : i \in DOMAIN players} |->
                    [k \in 1..PIECES_PER_PLAYER |-> LudoPiece]],
     pieces_finished |-> [u \in {players[i] : i \in DOMAIN players} |-> 0],
     captures_made |-> [u \in {players[i] : i \in DOMAIN players} |-> 0],
     client_seeds |-> EmptyDict, nonce |-> 0,
     current_player_index |-> 0, current_roll |-> None,
     consecutive_sixes |-> 0, can_roll_again |-> FALSE,
     moves_history |-> <<>>, move_counter |-> 0,
     winner |-> None, rankings |-> <<>>]

current_user_id(g) == g.player_order[g.current_player_index + 1]

get_start_position(color) ==
    CASE color = "RED" -> 0 [] color = "BLUE" -> 13
      [] color = "GREEN" -> 26 [] color = "YELLOW" -> 39

get_safe_zone_entry(color) == (get_start_position(color) + BOARD_SIZE - 1) % BOARD_SIZE

\* start_game: the error flag and the engine afterwards
start_game(g) ==
    IF g.state # "WAITING" THEN [error |-> TRUE, engine |-> g]
    ELSE [error |-> FALSE, engine |-> [g EXCEPT !.state = "ROLLING"]]

\* _can_move_piece for a piece of colour owner: None, or the target and action
can_move_piece(piece, owner, dice_value) ==
    IF piece.state = "HOME"
    THEN IF dice_value = EXIT_ROLL
         THEN Some([to |-> get_start_position(owner), action |-> "exit"])
         ELSE None
    ELSE IF piece.state = "FINISHED" THEN None
    ELSE IF piece.state = "SAFE_ZONE"
    THEN LET new_safe_pos == piece.safe_zone_pos + dice_value
         IN  IF new_safe_pos = HOME_STRETCH + 1 THEN Some([to |-> -2, action |-> "finish"])
             ELSE IF new_safe_pos > HOME_STRETCH + 1 THEN None
             ELSE Some([to |-> new_safe_pos, action |-> "safe_move"])
    ELSE LET new_pos        == (piece.position + dice_value) % BOARD_SIZE
             steps_to_entry == (get_safe_zone_entry(owner) - piece.position) % BOARD_SIZE
             remaining      == dice_value - steps_to_entry - 1
         IN  IF steps_to_entry < dice_value
             THEN IF remaining <= HOME_STRETCH
                  THEN IF remaining = HOME_STRETCH
                       THEN Some([to |-> -2, action |-> "finish"])
                       ELSE Some([to |-> remaining, action |-> "enter_safe"])
                  ELSE None
             ELSE Some([to |-> new_pos, action |-> "move"])

\* _get_available_moves: the piece ids (0..3) of the current player that can move
get_available_moves(g, dice_value) ==
    LET u == current_user_id(g)
    IN  {k - 1 : k \in {k \in 1..PIECES_PER_PLAYER :
                           can_move_piece(g.pieces[u][k], g.color[u], dice_value) # None}}

next_turn_keeps_sixes(g) ==
    [g EXCEPT !.current_player_index = (@ + 1) % Len(g.player_order),
              !.current_roll = None,
              !.can_roll_again = FALSE,
              !.state = "ROLLING"]

\* _next_turn
next_turn(g) ==
    [g EXCEPT !.current_player_index = (@ + 1) % Len(g.player_order),
              !.current_roll = None,
              !.consecutive_sixes = 0,
              !.can_roll_again = FALSE,
              !.state = "ROLLING"]

\* _check_capture by the current player at a position: the captured piece
\* (colour and piece id, the first in the order of players and pieces) and
\* the engine afterwards
check_capture(g, position, attacker_color) ==
    LET hits == {ik \in (DOMAIN g.player_order) \X (1..PIECES_PER_PLAYER) :
                   /\ g.color[g.player_order[ik[1]]] # attacker_color
                   /\ g.pieces[g.player_order[ik[1]]][ik[2]].state = "ACTIVE"
                   /\ g.pieces[g.player_order[ik[1]]][ik[2]].position = position}
    IN  IF position \in SAFE_POSITIONS \/ hits = {}
        THEN [capture |-> None, engine |-> g]
        ELSE LET ik == CHOOSE h \in hits :
                          \A o \in hits : h[1] < o[1] \/ (h[1] = o[1] /\ h[2] <= o[2])
                 v  == g.player_order[ik[1]]
             IN  [capture |-> Some(<<g.color[v], ik[2] - 1>>),
                  engine |-> [g EXCEPT !.pieces[v][ik[2]].state = "HOME",
                                       !.pieces[v][ik[2]].position = -1,
                                       !.captures_made[current_user_id(g)] = @ + 1]]

\* _validate_and_execute_move for piece k (1..4) of the current player
validate_and_execute_move(g, k, dice_value) ==
    LET u         == current_user_id(g)
        piece     == g.pieces[u][k]
        move_info == can_move_piece(piece, g.color[u], dice_value)
        to_pos    == move_info[1].to
        action    == move_info[1].action
        base      == [error |-> FALSE, from |-> piece.position, to |-> to_pos,
                      capture |-> None, entered_safe_zone |-> FALSE,
                      finished |-> FALSE, engine |-> g]
    IN  IF move_info = None
        THEN [error |-> TRUE, from |-> piece.position, to |-> piece.position,
              capture |-> None, entered_safe_zone |-> FALSE, finished |-> FALSE,
              engine |-> g]
        ELSE IF action = "exit"
        THEN LET c == check_capture([g EXCEPT !.pieces[u][k].state = "ACTIVE",
                                              !.pieces[u][k].position = to_pos],
                                    to_pos, g.color[u])
             IN  [base EXCEPT !.capture = c.capture, !.engine = c.engine]
        ELSE IF action = "move"
        THEN LET c == check_capture([g EXCEPT !.pieces[u][k].position = to_pos],
                                    to_pos, g.color[u])
             IN  [base EXCEPT !.capture = c.capture, !.engine = c.engine]
        ELSE IF action = "enter_safe"
        THEN [base EXCEPT !.entered_safe_zone = TRUE,
                          !.engine = [g EXCEPT !.pieces[u][k].state = "SAFE_ZONE",
                                               !.pieces[u][k].position = -1,
                                               !.pieces[u][k].safe_zone_pos = to_pos]]
        ELSE IF action = "safe_move"
        THEN [base EXCEPT !.engine = [g EXCEPT !.pieces[u][k].safe_zone_pos = to_pos]]
        ELSE [base EXCEPT !.finished = TRUE,
                          !.engine = [g EXCEPT !.pieces[u][k].state = "FINISHED",
                                               !.pieces[u][k].position = -2,
                                               !.pieces[u][k].safe_zone_pos = -1,
                                               !.pieces_finished[u] = @ + 1]]

handle_victory_keeps_rolling(g, winner) ==
    [g EXCEPT !.state = "ROLLING",
              !.current_roll = None,
              !.winner = Some(winner),
              !.rankings = <<winner>> \o SelectSeq(g.player_order, LAMBDA v : v # winner)]

\* _handle_victory
handle_victory(g, winner) ==
    [g EXCEPT !.state = "COMPLETED",
              !.winner = Some(winner),
              !.rankings = <<winner>> \o SelectSeq(g.player_order, LAMBDA v : v # winner)]

roll_dice_seed_first(g, user_id, client_seed) ==
    LET seeded == IF client_seed = None THEN g
                  ELSE set_client_seed(g, user_id, client_seed[1])
    IN  IF g.state # "ROLLING" \/ user_id # current_user_id(g)
        THEN [error |-> TRUE, engine |-> seeded]
        ELSE [error |-> FALSE, engine |-> [seeded EXCEPT !.nonce = @ + 1]]

\* roll_dice(user_id, client_seed): the error flag and the engine afterwards
roll_dice(g, user_id, client_seed) ==
    IF g.state # "ROLLING" THEN [error |-> TRUE, engine |-> g]
    ELSE IF user_id # current_user_id(g) THEN [error |-> TRUE, engine |-> g]
    ELSE LET seeded == IF client_seed = None THEN g
                       ELSE set_client_seed(g, user_id, client_seed[1])
             r      == roll(seeded, user_id)
             value  == r.roll.value
             g1     == [r.engine EXCEPT !.current_roll = Some(r.roll)]
             g2     == IF value = 6
                       THEN [g1 EXCEPT !.consecutive_sixes = @ + 1, !.can_roll_again = TRUE]
                       ELSE [g1 EXCEPT !.consecutive_sixes = 0, !.can_roll_again = FALSE]
         IN  IF value = 6 /\ g1.consecutive_sixes + 1 >= MAX_CONSECUTIVE_SIXES
             THEN [error |-> FALSE,
                   engine |-> next_turn([g1 EXCEPT !.consecutive_sixes = @ + 1])]
             ELSE IF get_available_moves(g2, value) = {}
             THEN [error |-> FALSE, engine |-> next_turn(g2)]
             ELSE [error |-> FALSE, engine |-> [g2 EXCEPT !.state = "MOVING"]]

\* move_piece(user_id, piece_id): the error flag and the engine afterwards
move_piece(g, user_id, piece_id) ==
    IF g.state # "MOVING" THEN [error |-> TRUE, engine |-> g]
    ELSE IF user_id # current_user_id(g) THEN [error |-> TRUE, engine |-> g]
    ELSE IF g.current_roll = None THEN [error |-> TRUE, engine |-> g]
    ELSE IF piece_id < 0 \/ piece_id >= PIECES_PER_PLAYER THEN [error |-> TRUE, engine |-> g]
    ELSE LET u    == current_user_id(g)
             r    == validate_and_execute_move(g, piece_id + 1, g.current_roll[1].value)
             move == [move_id |-> g.move_counter + 1, player |-> g.color[u],
                      piece_id |-> piece_id, dice_roll |-> g.current_roll[1],
                      from_position |-> r.from, to_position |-> r.to,
                      captured_piece |-> r.capture,
                      entered_safe_zone |-> r.entered_safe_zone,
                      finished |-> r.finished]
             g1   == [r.engine EXCEPT !.move_counter = @ + 1,
                                      !.moves_history = Append(@, move)]
         IN  IF r.error THEN [error |-> TRUE, engine |-> g]
             ELSE IF g1.pieces_finished[u] >= PIECES_PER_PLAYER
             THEN [error |-> FALSE, engine |-> handle_victory(g1, u)]
             ELSE IF g1.can_roll_again \/ r.capture # None \/ r.finished
             THEN [error |-> FALSE,
                   engine |-> [g1 EXCEPT !.state = "ROLLING", !.current_roll = None]]
             ELSE [error |-> FALSE, engine |-> next_turn(g1)]

(***************************************************************************)
(* What the results of the engine hold of the server seed: the set of the  *)
(* values in a result that are the seed or a digest made from it.          *)
(***************************************************************************)
\* a DiceRoll record
DiceRollTerms(dice_roll) == {dice_roll.server_seed, dice_roll.hash_proof}

\* DiceRoll.to_dict
DiceRollToDict(dice_roll) == {dice_roll.hash_proof}

\* the result of start_game
start_game_result(g) ==
    IF start_game(g).error THEN {} ELSE {sha256(<<g.server_seed>>)}

\* the result of roll_dice
roll_dice_result(g, user_id, client_seed) ==
    IF roll_dice(g, user_id, client_seed).error THEN {}
    ELSE LET seeded == IF client_seed = None THEN g
                       ELSE set_client_seed(g, user_id, client_seed[1])
         IN  DiceRollToDict(roll(seeded, user_id).roll)

\* the result of move_piece: piece_moved, or game_over with the verification data
move_piece_result(g, user_id, piece_id) ==
    LET r == move_piece(g, user_id, piece_id)
    IN  IF r.error THEN {}
        ELSE IF r.engine.state = "COMPLETED" THEN get_verification_data(r.engine)
        ELSE {}

\* get_state
get_state(g) ==
    {sha256(<<g.server_seed>>)}
    \cup (IF g.current_roll = None THEN {} ELSE DiceRollToDict(g.current_roll[1]))

(***************************************************************************)
(* SpecLudo: one board game of alice and bob, held in ludo_games under     *)
(* match id 1 as websocket_handler.ludo_start_game creates it, driven by   *)
(* calls of start_game, roll_dice and move_piece.  The server seed is any  *)
(* of those that give the first MaxRolls rolls any faces.                  *)
(***************************************************************************)
LudoPlayers == <<"alice", "bob">>
ClientSeeds == {None, Some("seed")}
DiceValues  == DICE_MIN..DICE_MAX
ServerSeeds == [1..MaxRolls -> DiceValues]
PieceIds    == -1..PIECES_PER_PLAYER

InitLudo ==
    /\ now = 0
    /\ enable_bot = TRUE
    /\ active_matches = EmptyDict
    /\ match_count = 0
    /\ player_to_match = EmptyDict
    /\ sid_to_user = EmptyDict
    /\ matchmaking_queue = [b \in Bets |-> <<>>]
    /\ device_to_users = EmptyDict
    /\ security_store = SecurityMemoryStore
    /\ jitter_profiles = EmptyDict
    /\ shield_log = <<>>
    /\ active_players = EmptyDict
    /\ recent_disconnects = <<>>
    /\ fee_result = None
    /\ \E server_seed \in ServerSeeds :
          ludo_games = DictPut(EmptyDict, 1, NewLudoEngine(LudoPlayers, server_seed))
    /\ tasks = [t \in TaskIds |-> [kind |-> "idle"]]
    /\ escrow = [k \in MatchIds \X Users |-> 0]
    /\ lock_failed = {}
    /\ done = None
    /\ InitLedger

StartGame ==
    /\ ludo_games[1].state = "WAITING"
    /\ ludo_games' = [ludo_games EXCEPT ![1] = start_game(@).engine]
    /\ UNCHANGED <<now, enable_bot, guardVars, active_matches, match_count, player_to_match,
                   sid_to_user, matchmaking_queue, device_to_users, tasks, escrow,
                   lock_failed, done, ledgerVars>>

RollDice(user_id, client_seed) ==
    /\ ludo_games[1].nonce < MaxRolls
    /\ ~roll_dice(ludo_games[1], user_id, client_seed).error
    /\ ludo_games' = [ludo_games EXCEPT ![1] = roll_dice(@, user_id, client_seed).engine]
    /\ UNCHANGED <<now, enable_bot, guardVars, active_matches, match_count, player_to_match,
                   sid_to_user, matchmaking_queue, device_to_users, tasks, escrow,
                   lock_failed, done, ledgerVars>>

MovePiece(user_id, piece_id) ==
    /\ ~move_piece(ludo_games[1], user_id, piece_id).error
    /\ ludo_games' = [ludo_games EXCEPT ![1] = move_piece(@, user_id, piece_id).engine]
    /\ UNCHANGED <<now, enable_bot, guardVars, active_matches, match_count, player_to_match,
                   sid_to_user, matchmaking_queue, device_to_users, tasks, escrow,
                   lock_failed, done, ledgerVars>>

NextLudo ==
    \/ StartGame
    \/ \E u \in Users, client_seed \in ClientSeeds : RollDice(u, client_seed)
    \/ \E u \in Users, piece_id \in PieceIds : MovePiece(u, piece_id)

SpecLudo == InitLudo /\ [][NextLudo]_vars

(***************************************************************************)
(* SpecGames: whole games of alice and bob.  A game is a server seed, and  *)
(* with it the faces of all its rolls, and the pieces the players choose   *)
(* for its first moves; after these, and until the rolls of the seed are   *)
(* used up, the player to move chooses any piece.  No client seed is sent. *)
(***************************************************************************)
\* bob has two pieces on cell 14 and alice lands on it
StackGame ==
    [server_seed |-> <<6, 6, 4, 6, 6, 1, 1, 1, 3, 2, 6>>,
     plan        |-> <<0, 0, 0, 0, 1, 0, 0, 1>>]

\* alice lands on the safe cell 13 on which a piece of bob stands
SafeCellGame ==
    [server_seed |-> <<6, 6, 1, 6, 6, 1, 6, 3, 6>>,
     plan        |-> <<0, 0, 0, 0, 1, 1>>]

\* alice brings her four pieces round the board and home, bob never leaves
EndGame ==
    [server_seed |-> <<
        6, 6, 5, 1, 6, 6, 5, 1, 6, 6, 5, 1, 6, 6, 1, 1, 6, 6, 5, 1, 6, 6,
        5, 1, 6, 6, 5, 1, 6, 6, 1, 1, 6, 6, 5, 1, 6, 6, 5, 1, 6, 6, 5, 1,
        6, 6, 1, 1, 6, 6, 5, 1, 6, 6, 5, 1, 6, 6, 5, 1, 5, 1, 4, 1, 6, 1, 4>>,
     plan        |-> <<
        0, 0, 0, 0, 0, 0, 0, 0, 0, 0, 0, 1, 1, 1, 1, 1, 1, 1, 1, 1, 1, 1,
        2, 2, 2, 2, 2, 2, 2, 2, 2, 2, 2, 3, 3, 3, 3, 3, 3, 3, 3, 3, 3, 3, 3>>]

Games == {StackGame, SafeCellGame, EndGame}

PlanOf(g) == (CHOOSE game \in Games : game.server_seed = g.server_seed).plan

InitGames ==
    /\ now = 0
    /\ enable_bot = TRUE
    /\ active_matches = EmptyDict
    /\ match_count = 0
    /\ player_to_match = EmptyDict
    /\ sid_to_user = EmptyDict
    /\ matchmaking_queue = [b \in Bets |-> <<>>]
    /\ device_to_users = EmptyDict
    /\ security_store = SecurityMemoryStore
    /\ jitter_profiles = EmptyDict
    /\ shield_log = <<>>
    /\ active_players = EmptyDict
    /\ recent_disconnects = <<>>
    /\ fee_result = None
    /\ \E game \in Games :
          ludo_games = DictPut(EmptyDict, 1, NewLudoEngine(LudoPlayers, game.server_seed))
    /\ tasks = [t \in TaskIds |-> [kind |-> "idle"]]
    /\ escrow = [k \in MatchIds \X Users |-> 0]
    /\ lock_failed = {}
    /\ done = None
    /\ InitLedger

RollDiceOfGame(user_id) ==
    /\ ludo_games[1].nonce < Len(ludo_games[1].server_seed)
    /\ ~roll_dice(ludo_games[1], user_id, None).error
    /\ ludo_games' = [ludo_games EXCEPT ![1] = roll_dice(@, user_id, None).engine]
    /\ UNCHANGED <<now, enable_bot, guardVars, active_matches, match_count, player_to_match,
                   sid_to_user, matchmaking_queue, device_to_users, tasks, escrow,
                   lock_failed, done, ledgerVars>>

MovePieceOfGame(user_id, piece_id) ==
    /\ ludo_games[1].move_counter < Len(PlanOf(ludo_games[1]))
       => piece_id = PlanOf(ludo_games[1])[ludo_games[1].move_counter + 1]
    /\ MovePiece(user_id, piece_id)

NextGames ==
    \/ StartGame
    \/ \E u \in Users : RollDiceOfGame(u)
    \/ \E u \in Users, piece_id \in PieceIds : MovePieceOfGame(u, piece_id)

SpecGames == InitGames /\ [][NextGames]_vars

-----------------------------------------------------------------------------
(***************************************************************************)
(* LK-SHIELD: SecurityConfig, SecurityMemoryStore and verify_player        *)
(***************************************************************************)
MIN_TRUST_SCORE_FOR_MATCH       == 30
MIN_TRUST_SCORE_FOR_HIGH_STAKES == 70
MAX_MATCH_REQUESTS_PER_MINUTE   == 10
MAX_FAILED_MATCHES_PER_HOUR     == 5
HIGH_STAKE_THRESHOLD            == 100
SUSPICIOUS_WIN_RATE             == 85      \* 0.85, in per cent
MIN_MATCHES_FOR_WIN_RATE        == 20
QUARANTINE_DURATION_HOURS       == 2

\* dict.get(k, default) and defaultdict lookup
DictGet(d, k, default) == IF k \in DOMAIN d THEN d[k] ELSE default

\* SecurityMemoryStore.record_ip_usage: entries older than 24 hours are dropped
record_ip_usage(store, user_id, ip, t) ==
    LET cutoff == t - 86400
        ips    == Append(DictGet(store.user_ips, user_id, <<>>), <<ip, t>>)
    IN  [store EXCEPT
           !.ip_to_users = DictPut(@, ip, DictGet(@, ip, {}) \cup {user_id}),
           !.user_ips = DictPut(@, user_id, SelectSeq(ips, LAMBDA e : e[2] > cutoff))]

\* SecurityMemoryStore.record_match_request: only the last minute is kept
record_match_request(store, user_id, t) ==
    LET cutoff == t - 60
        reqs   == Append(DictGet(store.match_requests, user_id, <<>>), t)
    IN  [store EXCEPT !.match_requests =
            DictPut(@, user_id, SelectSeq(reqs, LAMBDA ts : ts > cutoff))]

\* mutant: the request being checked is not counted
get_match_request_count_before(store, user_id, t) ==
    LET cutoff == t - 60
    IN  Len(SelectSeq(DictGet(store.match_requests, user_id, <<>>),
                      LAMBDA ts : ts > cutoff)) - 1

\* SecurityMemoryStore.get_match_request_count
get_match_request_count(store, user_id, t) ==
    LET cutoff == t - 60
    IN  Len(SelectSeq(DictGet(store.match_requests, user_id, <<>>),
                      LAMBDA ts : ts > cutoff))

\* SecurityMemoryStore.get_failed_match_count
get_failed_match_count(store, user_id, t) ==
    LET cutoff == t - 3600
    IN  Len(SelectSeq(DictGet(store.failed_matches, user_id, <<>>),
                      LAMBDA ts : ts > cutoff))

\* SecurityMemoryStore.set_quarantine
set_quarantine(store, user_id, hours, t) ==
    [store EXCEPT !.quarantine = DictPut(@, user_id, t + hours * 3600)]

\* mutant: nobody is ever in quarantine
is_in_quarantine_never(store, user_id, t) ==
    [in_quarantine |-> FALSE, until |-> None, store |-> store]

\* SecurityMemoryStore.is_in_quarantine: an expired entry is deleted
is_in_quarantine(store, user_id, t) ==
    IF user_id \notin DOMAIN store.quarantine
    THEN [in_quarantine |-> FALSE, until |-> None, store |-> store]
    ELSE IF t > store.quarantine[user_id]
    THEN [in_quarantine |-> FALSE, until |-> None,
          store |-> [store EXCEPT !.quarantine = DictDel(@, user_id)]]
    ELSE [in_quarantine |-> TRUE, until |-> Some(store.quarantine[user_id]),
          store |-> store]

\* ShieldCheckResult, with the tables as the call leaves them
ShieldCheckResult(verdict, can_proceed, risk_score, retry_after, store, d2u) ==
    [verdict |-> verdict, can_proceed |-> can_proceed, risk_score |-> risk_score,
     retry_after |-> retry_after, store |-> store, device_to_users |-> d2u]

\* LKShield.verify_player at time t
verify_player(store, d2u, profile, bet_amount, t) ==
    LET q      == is_in_quarantine(store, profile.user_id, t)
        risk4  == CASE profile.trust_level = "RED" -> 30
                    [] profile.trust_level = "YELLOW" -> 15
                    [] OTHER -> 0
        risk5  == risk4 + (IF /\ bet_amount >= HIGH_STAKE_THRESHOLD
                              /\ profile.trust_score < MIN_TRUST_SCORE_FOR_HIGH_STAKES
                           THEN 20 ELSE 0)
        store6 == record_match_request(q.store, profile.user_id, t)
        request_count == get_match_request_count(store6, profile.user_id, t)
        risk7  == risk5 + (IF get_failed_match_count(store6, profile.user_id, t)
                                >= MAX_FAILED_MATCHES_PER_HOUR
                           THEN 25 ELSE 0)
        store8 == record_ip_usage(store6, profile.user_id, profile.current_ip, t)
        d2u8   == IF profile.device_fingerprint # None
                  THEN record_device_usage(d2u, profile.user_id,
                                           profile.device_fingerprint[1])
                  ELSE d2u
        risk9  == risk7 + (IF /\ profile.recent_matches >= MIN_MATCHES_FOR_WIN_RATE
                              /\ profile.recent_wins * 100
                                   >= SUSPICIOUS_WIN_RATE * profile.recent_matches
                           THEN 20 ELSE 0)
        risk10 == risk9 + (IF profile.recent_disconnects >= 3 THEN 15 ELSE 0)
    IN  IF profile.is_frozen
        THEN ShieldCheckResult("DENIED_FROZEN", FALSE, 100, None, store, d2u)
        ELSE IF q.in_quarantine
        THEN ShieldCheckResult("DENIED_QUARANTINE", FALSE, 0,
                               Some(q.until[1] - t), q.store, d2u)
        ELSE IF profile.trust_score < MIN_TRUST_SCORE_FOR_MATCH
        THEN ShieldCheckResult("DENIED_LOW_TRUST", FALSE, 40, None, q.store, d2u)
        ELSE IF bet_amount >= HIGH_STAKE_THRESHOLD /\ profile.kyc_status # "VERIFIED"
        THEN ShieldCheckResult("DENIED_KYC", FALSE, 50, None, q.store, d2u)
        ELSE IF request_count > MAX_MATCH_REQUESTS_PER_MINUTE
        THEN ShieldCheckResult("DENIED_RATE_LIMIT", FALSE, 0, Some(60), store6, d2u)
        ELSE IF risk10 >= 70
        THEN ShieldCheckResult("REVIEW_REQUIRED", FALSE, risk10, None, store8, d2u8)
        ELSE ShieldCheckResult("APPROVED", TRUE, risk10, None, store8, d2u8)

\* LKShield.trigger_quarantine
trigger_quarantine(store, user_id, t) ==
    set_quarantine(store, user_id, QUARANTINE_DURATION_HOURS, t)

(***************************************************************************)
(* SpecShield: one account asks for matches with every kind of profile,    *)
(* is put in quarantine, and half minutes pass                             *)
(***************************************************************************)
ShieldUsers    == {"alice"}
ShieldBets     == {50, HIGH_STAKE_THRESHOLD}
ShieldProfiles ==
    {[user_id |-> u, trust_score |-> ts, trust_level |-> tl, kyc_status |-> kyc,
      is_frozen |-> fr, device_fingerprint |-> dev, current_ip |-> "ip1",
      recent_matches |-> h[1], recent_wins |-> h[2], recent_disconnects |-> h[3]] :
        u \in ShieldUsers,
        ts \in {MIN_TRUST_SCORE_FOR_MATCH - 1, MIN_TRUST_SCORE_FOR_MATCH,
                MIN_TRUST_SCORE_FOR_HIGH_STAKES},
        tl \in {"GREEN", "RED"}, kyc \in {"VERIFIED", "PENDING"}, fr \in BOOLEAN,
        dev \in {None, Some("d1")}, h \in {<<0, 0, 0>>, <<20, 17, 3>>}}

\* the verdicts of a request that got as far as the rate-limit check
ReachedRateLimit == {"DENIED_RATE_LIMIT", "REVIEW_REQUIRED", "APPROVED"}

\* the account is new, or its quarantine ran out a second ago
InitShield ==
    /\ now = 0
    /\ enable_bot = FALSE
    /\ active_matches = EmptyDict
    /\ match_count = 0
    /\ player_to_match = EmptyDict
    /\ sid_to_user = EmptyDict
    /\ matchmaking_queue = [b \in Bets |-> <<>>]
    /\ device_to_users = EmptyDict
    /\ \E q \in {EmptyDict} \cup {[u \in {v} |-> -1] : v \in ShieldUsers} :
          security_store = [SecurityMemoryStore EXCEPT !.quarantine = q]
    /\ jitter_profiles = EmptyDict
    /\ shield_log = <<>>
    /\ active_players = EmptyDict
    /\ recent_disconnects = <<>>
    /\ fee_result = None
    /\ ludo_games = EmptyDict
    /\ tasks = [t \in TaskIds |-> [kind |-> "idle"]]
    /\ escrow = [k \in MatchIds \X Users |-> 0]
    /\ lock_failed = {}
    /\ done = None
    /\ InitLedger

\* a call of lk_shield.verify_player
VerifyPlayer(profile, bet_amount) ==
    LET r == verify_player(security_store, device_to_users, profile, bet_amount, now)
        reached == r.verdict \in ReachedRateLimit
    IN  /\ reached => Len(shield_log) < MaxRequests
        /\ security_store' = r.store
        /\ device_to_users' = r.device_to_users
        /\ shield_log' = IF reached
                         THEN Append(shield_log,
                                     [user_id |-> profile.user_id, t |-> now,
                                      limited |-> r.verdict = "DENIED_RATE_LIMIT"])
                         ELSE shield_log
        /\ UNCHANGED <<now, enable_bot, active_matches, match_count, player_to_match,
                       sid_to_user, matchmaking_queue, jitter_profiles, outageVars,
                       fee_result,
                       ludo_games, tasks, escrow, lock_failed, done, ledgerVars>>

\* a call of lk_shield.trigger_quarantine
TriggerQuarantine(user_id) ==
    /\ security_store' = trigger_quarantine(security_store, user_id, now)
    /\ UNCHANGED <<now, enable_bot, active_matches, match_count, player_to_match,
                   sid_to_user, matchmaking_queue, device_to_users, jitter_profiles,
                   shield_log, outageVars, fee_result, ludo_games, tasks, escrow,
                   lock_failed,
                   done, ledgerVars>>

NextShield ==
    \/ Elapse(30)
    \/ \E profile \in ShieldProfiles, bet_amount \in ShieldBets :
          VerifyPlayer(profile, bet_amount)
    \/ \E u \in ShieldUsers : TriggerQuarantine(u)

SpecShield == InitShield /\ [][NextShield]_vars

-----------------------------------------------------------------------------
(***************************************************************************)
(* Jitter detector: JitterConfig, LatencyProfile and process_heartbeat.    *)
(* Round trip times are whole milliseconds.  The baseline is kept as the   *)
(* number, sum and sum of squares of the trimmed samples, so that          *)
(* baseline_rtt = sum / n and baseline_std^2 = (n sumsq - sum^2)/(n (n-1)) *)
(* are exact.                                                              *)
(***************************************************************************)
BASELINE_SAMPLES        == 10
LATENCY_SPIKE_THRESHOLD == 500
MAX_SPIKES_BEFORE_FLAG  == 3
SPIKE_WINDOW            == 60

\* LatencyProfile(user_id=user_id)
LatencyProfile(user_id) ==
    [user_id |-> user_id, baseline |-> [n |-> 0, sum |-> 0, sumsq |-> 0],
     current_rtt |-> 0, samples |-> <<>>, spike_timestamps |-> <<>>,
     connection_quality |-> "GOOD", is_flagged |-> FALSE, flag_reason |-> "",
     missed_heartbeats |-> 0, last_heartbeat |-> 0,
     spikes_during_critical |-> 0, total_critical_moments |-> 0]

RECURSIVE SumOf(_)
SumOf(seq) == IF seq = <<>> THEN 0 ELSE Head(seq) + SumOf(Tail(seq))

\* seq[-k:]
LastOf(seq, k) ==
    IF Len(seq) <= k THEN seq ELSE SubSeq(seq, Len(seq) - k + 1, Len(seq))

\* JitterDetector._update_baseline: mean and deviation of the last 20 round
\* trip times without the two lowest and the two highest
update_baseline(profile) ==
    LET recent_rtts == LastOf(profile.samples, 20)
        sorted_rtts == SortSeq(recent_rtts, LAMBDA a, b : a < b)
        trimmed     == IF Len(sorted_rtts) > 4
                       THEN SubSeq(sorted_rtts, 3, Len(sorted_rtts) - 2)
                       ELSE sorted_rtts
    IN  IF Len(recent_rtts) >= BASELINE_SAMPLES
        THEN [profile EXCEPT !.baseline =
                 [n |-> Len(trimmed), sum |-> SumOf(trimmed),
                  sumsq |-> SumOf([i \in DOMAIN trimmed |-> trimmed[i] * trimmed[i]])]]
        ELSE profile

\* normalized_deviation > JITTER_THRESHOLD_STD (2.5), where
\* normalized_deviation = (rtt - baseline_rtt) / (baseline_std + 1):
\* with a = 2 (n rtt - sum) - 5 n, it says a > 0 and, when the deviation is
\* not 0, a^2 (n - 1) > 25 n (n sumsq - sum^2)
deviation_above_threshold(baseline, rtt) ==
    LET n == baseline.n
        a == 2 * (n * rtt - baseline.sum) - 5 * n
    IN  /\ a > 0
        /\ n > 1 => a * a * (n - 1)
                      > 25 * n * (n * baseline.sumsq - baseline.sum * baseline.sum)

\* JitterDetector._is_critical_moment
is_critical_moment(game_state) ==
    game_state \in {"SHOOTING", "DEFENDING", "PENALTY", "MATCH_POINT",
                    "FINAL_MOVE", "WINNING_POSITION", "LOSING_POSITION"}

\* JitterDetector._classify_connection
classify_connection(rtt) ==
    CASE rtt < 50 -> "EXCELLENT"
      [] rtt >= 50 /\ rtt < 100 -> "GOOD"
      [] rtt >= 100 /\ rtt < 200 -> "FAIR"
      [] rtt >= 200 /\ rtt < 500 -> "POOR"
      [] OTHER -> "CRITICAL"

\* JitterDetector._analyze_jitter for a sample of round trip time rtt taken
\* at current_time; of the JitterAnalysis, is_suspicious and spike_count
analyze_jitter(profile, rtt, game_state, current_time) ==
    LET is_spike == \/ rtt > LATENCY_SPIKE_THRESHOLD
                    \/ deviation_above_threshold(profile.baseline, rtt)
        cutoff   == current_time - SPIKE_WINDOW
        critical == is_critical_moment(game_state)
        p1 == IF is_spike
              THEN [profile EXCEPT
                      !.spike_timestamps =
                          SelectSeq(Append(@, current_time), LAMBDA ts : ts > cutoff),
                      !.spikes_during_critical = IF critical THEN @ + 1 ELSE @,
                      !.total_critical_moments = IF critical THEN @ + 1 ELSE @]
              ELSE [profile EXCEPT
                      !.total_critical_moments = IF critical THEN @ + 1 ELSE @]
        p2 == [p1 EXCEPT !.connection_quality = classify_connection(rtt)]
        many_spikes == Len(p2.spike_timestamps) >= MAX_SPIKES_BEFORE_FLAG
        pattern == /\ p2.total_critical_moments >= 5
                   /\ 10 * p2.spikes_during_critical > 6 * p2.total_critical_moments
        is_suspicious == many_spikes \/ pattern
        p3 == IF is_suspicious /\ ~p2.is_flagged
              THEN [p2 EXCEPT !.is_flagged = TRUE,
                              !.flag_reason =
                                  IF pattern THEN "Suspicious spike timing pattern"
                                  ELSE "Multiple latency spikes detected"]
              ELSE p2
    IN  IF profile.baseline.sum = 0
        THEN [profile |-> profile, is_suspicious |-> FALSE, spike_count |-> None]
        ELSE [profile |-> p3, is_suspicious |-> is_suspicious,
              spike_count |-> Some(Len(p3.spike_timestamps))]

\* JitterDetector.process_heartbeat at time server_time, for a client
\* timestamp that lies rtt milliseconds before it
process_heartbeat(profiles, active, user_id, rtt, game_state, server_time) ==
    LET profile == IF user_id \in DOMAIN profiles THEN profiles[user_id]
                   ELSE LatencyProfile(user_id)
        p1 == [profile EXCEPT
                 !.samples = LastOf(Append(@, rtt), 100),
                 !.current_rtt = rtt,
                 !.last_heartbeat = server_time,
                 !.missed_heartbeats = 0]
        p2 == IF Len(p1.samples) >= BASELINE_SAMPLES THEN update_baseline(p1) ELSE p1
        r  == analyze_jitter(p2, rtt, game_state, server_time)
    IN  [profiles |-> DictPut(profiles, user_id, r.profile),
         active_players |-> DictPut(active, user_id, server_time),
         is_suspicious |-> r.is_suspicious, spike_count |-> r.spike_count]

(***************************************************************************)
(* SpecJitter: one client sends heartbeats, steady ones until the baseline *)
(* exists and then of any kind, while half minutes and minutes pass        *)
(***************************************************************************)
JitterUsers == {"alice"}
Rtts        == {40, 100, 600}
GameStates  == {"", "MATCH_POINT"}
SteadyRtt   == 40

\* the handler heartbeat: one call of jitter_detector.process_heartbeat
ProcessHeartbeat(user_id, rtt, game_state) ==
    LET r == process_heartbeat(jitter_profiles, active_players, user_id, rtt,
                               game_state, now)
        count == IF user_id \in DOMAIN jitter_profiles
                 THEN Len(jitter_profiles[user_id].samples) ELSE 0
    IN  /\ count < BASELINE_SAMPLES + MaxBeats
        /\ count < BASELINE_SAMPLES => rtt = SteadyRtt /\ game_state = ""
        /\ jitter_profiles' = r.profiles
        /\ active_players' = r.active_players
        /\ UNCHANGED <<now, enable_bot, active_matches, match_count, player_to_match,
                       sid_to_user, matchmaking_queue, device_to_users,
                       security_store, shield_log, fee_result, recent_disconnects, ludo_games, tasks, escrow,
                       lock_failed, done, ledgerVars>>

NextJitter ==
    \/ \E d \in {30, SPIKE_WINDOW + 1} : Elapse(d)
    \/ \E u \in JitterUsers, rtt \in Rtts, game_state \in GameStates :
          ProcessHeartbeat(u, rtt, game_state)

SpecJitter == InitTimers /\ [][NextJitter]_vars

-----------------------------------------------------------------------------
(***************************************************************************)
(* Jitter detector: registration, missed heartbeats and the classification *)
(* of disconnects                                                          *)
(***************************************************************************)
HEARTBEAT_INTERVAL        == 3
HEARTBEAT_TOLERANCE       == 1
MASS_DISCONNECT_THRESHOLD == 20      \* 0.20, in per cent

\* JitterDetector.register_player
register_player(profiles, active, user_id, t) ==
    [profiles |-> IF user_id \in DOMAIN profiles THEN profiles
                  ELSE DictPut(profiles, user_id, LatencyProfile(user_id)),
     active_players |-> DictPut(active, user_id, t)]

\* JitterDetector.unregister_player
unregister_player(profiles, active, user_id) ==
    [profiles |-> DictDel(profiles, user_id),
     active_players |-> DictDel(active, user_id)]

\* JitterDetector._classify_disconnect
classify_disconnect(profiles, recent, active, user_id, current_time) ==
    LET cutoff   == current_time - 30
        kept     == SelectSeq(Append(recent, <<user_id, current_time>>),
                              LAMBDA e : e[2] > cutoff)
        total_active == Cardinality(DOMAIN active)
        type == IF /\ total_active > 0
                   /\ 100 * Len(kept) >= MASS_DISCONNECT_THRESHOLD * total_active
                THEN "MASS_OUTAGE"
                ELSE IF user_id \in DOMAIN profiles /\ profiles[user_id].is_flagged
                THEN "LAG_SWITCH"
                ELSE IF /\ user_id \in DOMAIN profiles
                        /\ Len(profiles[user_id].spike_timestamps) >= 2
                THEN "SUSPICIOUS"
                ELSE "GENUINE"
    IN  [disconnect_type |-> type, recent_disconnects |-> kept]

\* JitterDetector.check_missed_heartbeat; analysis is the JitterAnalysis it
\* returns, or None
check_missed_heartbeat(profiles, recent, active, user_id, current_time) ==
    LET profile == profiles[user_id]
        time_since_last   == current_time - profile.last_heartbeat
        expected_interval == HEARTBEAT_INTERVAL + HEARTBEAT_TOLERANCE
        missed == profile.missed_heartbeats + 1
        counted == DictPut(profiles, user_id,
                           [profile EXCEPT !.missed_heartbeats = missed])
        c == classify_disconnect(counted, recent, active, user_id, current_time)
    IN  IF user_id \notin DOMAIN profiles
        THEN [profiles |-> profiles, recent_disconnects |-> recent, analysis |-> None]
        ELSE IF time_since_last > expected_interval
        THEN IF missed >= 3
             THEN [profiles |-> counted, recent_disconnects |-> c.recent_disconnects,
                   analysis |-> Some([user_id |-> user_id, timestamp |-> current_time,
                                      disconnect_type |-> c.disconnect_type,
                                      is_suspicious |->
                                          c.disconnect_type \notin {"GENUINE",
                                                                    "MASS_OUTAGE"}])]
             ELSE [profiles |-> counted, recent_disconnects |-> recent,
                   analysis |-> None]
        ELSE [profiles |-> profiles, recent_disconnects |-> recent, analysis |-> None]

(***************************************************************************)
(* SpecOutage: a crowd of accounts is registered; two more accounts come   *)
(* and go and are watched for missed heartbeats, and one of these has sent *)
(* heartbeats before and goes on sending them                              *)
(***************************************************************************)
Crowd      == {"carol", "dave", "erin", "frank"}
Watched    == {"alice", "bob"}

\* the detector after heartbeats with the round trip times rtts, all at time t
RECURSIVE AfterHeartbeats(_, _, _)
AfterHeartbeats(user_id, rtts, t) ==
    IF rtts = <<>>
    THEN [profiles |-> EmptyDict, active_players |-> EmptyDict]
    ELSE LET before == AfterHeartbeats(user_id, SubSeq(rtts, 1, Len(rtts) - 1), t)
         IN  process_heartbeat(before.profiles, before.active_players, user_id,
                               rtts[Len(rtts)], "", t)

Steady == [i \in 1..BASELINE_SAMPLES |-> SteadyRtt]
\* no heartbeat yet; a baseline and two spikes; a baseline and three spikes
Histories == {<<>>, Steady \o <<600, 600>>, Steady \o <<600, 600, 600>>}

InitOutage ==
    /\ now = StartTime
    /\ enable_bot = FALSE
    /\ active_matches = EmptyDict
    /\ match_count = 0
    /\ player_to_match = EmptyDict
    /\ sid_to_user = EmptyDict
    /\ matchmaking_queue = [b \in Bets |-> <<>>]
    /\ device_to_users = EmptyDict
    /\ security_store = SecurityMemoryStore
    /\ shield_log = <<>>
    /\ \E rtts \in Histories, crowd \in {{}, Crowd} :
          LET d == AfterHeartbeats("alice", rtts, StartTime)
          IN  /\ jitter_profiles =
                    [u \in DOMAIN d.profiles \cup crowd |->
                        IF u \in crowd THEN LatencyProfile(u) ELSE d.profiles[u]]
              /\ active_players =
                    [u \in DOMAIN d.active_players \cup crowd |-> StartTime]
    /\ recent_disconnects = <<>>
    /\ fee_result = None
    /\ ludo_games = EmptyDict
    /\ tasks = [t \in TaskIds |-> [kind |-> "idle"]]
    /\ escrow = [k \in MatchIds \X Users |-> 0]
    /\ lock_failed = {}
    /\ done = None
    /\ InitLedger

\* d seconds pass
Wait(d) ==
    /\ now + d <= StartTime + MaxOutage
    /\ now' = now + d
    /\ UNCHANGED <<managerVars, ledgerVars>>

\* join_matchmaking, as far as the jitter detector is concerned
RegisterPlayer(user_id) ==
    LET r == register_player(jitter_profiles, active_players, user_id, now)
    IN  /\ user_id \notin DOMAIN active_players
        /\ jitter_profiles' = r.profiles
        /\ active_players' = r.active_players
        /\ UNCHANGED <<now, enable_bot, active_matches, match_count, player_to_match,
                       sid_to_user, matchmaking_queue, device_to_users,
                       security_store, shield_log, fee_result, recent_disconnects, ludo_games, tasks, escrow,
                       lock_failed, done, ledgerVars>>

\* a call of jitter_detector.unregister_player
UnregisterPlayer(user_id) ==
    LET r == unregister_player(jitter_profiles, active_players, user_id)
    IN  /\ user_id \in DOMAIN active_players
        /\ jitter_profiles' = r.profiles
        /\ active_players' = r.active_players
        /\ UNCHANGED <<now, enable_bot, active_matches, match_count, player_to_match,
                       sid_to_user, matchmaking_queue, device_to_users,
                       security_store, shield_log, fee_result, recent_disconnects, ludo_games, tasks, escrow,
                       lock_failed, done, ledgerVars>>

\* a periodic call of jitter_detector.check_missed_heartbeat
CheckMissedHeartbeat(user_id) ==
    LET r == check_missed_heartbeat(jitter_profiles, recent_disconnects,
                                    active_players, user_id, now)
    IN  /\ user_id \in DOMAIN jitter_profiles
             => jitter_profiles[user_id].missed_heartbeats < MaxMissed
        /\ Len(recent_disconnects) < MaxDisconnects
        /\ jitter_profiles' = r.profiles
        /\ recent_disconnects' = r.recent_disconnects
        /\ UNCHANGED <<now, enable_bot, active_matches, match_count, player_to_match,
                       sid_to_user, matchmaking_queue, device_to_users,
                       security_store, shield_log, fee_result, active_players, ludo_games,
                       tasks, escrow, lock_failed, done, ledgerVars>>

NextOutage ==
    \/ Wait(16)
    \/ \E u \in Watched : RegisterPlayer(u)
    \/ \E u \in Watched : UnregisterPlayer(u)
    \/ \E u \in Watched : CheckMissedHeartbeat(u)
    \/ ProcessHeartbeat("alice", SteadyRtt, "")

SpecOutage == InitOutage /\ [][NextOutage]_vars

-----------------------------------------------------------------------------
(***************************************************************************)
(* SpecRake: RakeCalculator.calculate_fee for bets of every quarter token  *)
(* up to MaxRakeBet quarters                                               *)
(***************************************************************************)
RakeBets == {25 * k : k \in 0..MaxRakeBet}

CalculateFee(bet_amount) ==
    /\ fee_result' = Some([bet_amount |-> bet_amount,
                            result |-> calculate_fee(bet_amount, 2)])
    /\ UNCHANGED <<now, enable_bot, active_matches, match_count, player_to_match,
                   sid_to_user, matchmaking_queue, device_to_users,
                   security_store, jitter_profiles, shield_log, outageVars,
                   ludo_games, tasks, escrow, lock_failed, done, ledgerVars>>

NextRake == \E bet_amount \in RakeBets : CalculateFee(bet_amount)

SpecRake == InitTimers /\ [][NextRake]_vars

-----------------------------------------------------------------------------
(***************************************************************************)
(* Claims on transition_state (SpecFSM)                                    *)
(***************************************************************************)
\* the edges the claim lists
ClaimedEdges ==
    {<<"MATCHMAKING", "LOCKED">>, <<"MATCHMAKING", "CANCELLED">>,
     <<"LOCKED", "IN_PROGRESS">>, <<"LOCKED", "CANCELLED">>,
     <<"IN_PROGRESS", "VALIDATION">>, <<"IN_PROGRESS", "DISPUTED">>,
     <<"VALIDATION", "SETTLEMENT">>, <<"VALIDATION", "DISPUTED">>,
     <<"SETTLEMENT", "COMPLETED">>, <<"SETTLEMENT", "DISPUTED">>,
     <<"DISPUTED", "COMPLETED">>, <<"DISPUTED", "CANCELLED">>}

\* C1: in every reachable set of rooms, transition_state(m, new) moves room m to
\* new only along a listed edge; a request off the edges (any request on a
\* COMPLETED or CANCELLED room, any request for an unknown match id) returns
\* false and leaves every room as it was, state, locked_at and started_at included.
C1_TransitionsFollowEdges ==
    \A m \in FsmMatchIds, new \in MatchState :
        LET r == transition_state(active_matches, m, new, now)
            listed == /\ m \in DOMAIN active_matches
                      /\ <<active_matches[m].state, new>> \in ClaimedEdges
        IN  /\ listed => r.ret /\ r.rooms[m].state = new
            /\ ~listed => ~r.ret /\ r.rooms = active_matches

\* a room went all the way to COMPLETED, from where every request is refused
C1_Witness ==
    \E m \in DOMAIN active_matches :
        /\ active_matches[m].state = "COMPLETED"
        /\ active_matches[m].locked_at # None
        /\ active_matches[m].started_at # None

-----------------------------------------------------------------------------
(***************************************************************************)
(* Claims on the TreasuryLedger (SpecLedger)                               *)
(***************************************************************************)
\* C5: every entry of TreasuryLedger.entries is COMMITTED and satisfies
\* debit_amount = credit_amount + rake_amount.
C5_CommittedEntriesBalance ==
    \A i \in DOMAIN ledger.entries :
        /\ ledger.entries[i].status = "COMMITTED"
        /\ ledger.entries[i].debit_amount =
              ledger.entries[i].credit_amount + ledger.entries[i].rake_amount

\* entries were committed, one was rolled back, and a create was refused
C5_Witness ==
    /\ Len(ledger.entries) >= 2
    /\ last_entry # None
    /\ last_entry[1].bet > 0

\* C6: the LedgerEntry built by create_match_settlement for a two-player match
\* has debit_amount = 2 * bet_amount.
C6_DebitIsBetTimesPlayers ==
    last_entry # None => last_entry[1].entry.debit_amount = 2 * last_entry[1].bet

\* C7 as stated: commit_entry on an id that was committed or rolled back at some
\* time returns false and leaves the ledger unchanged.
C7_CommitOfClosedIdEver ==
    \A id \in ever_closed :
        LET r == commit_entry(ledger, id)
        IN  ~r.ret /\ r.ledger = ledger

\* C7 amended: commit_entry on an id that was committed or rolled back, and that
\* create_match_settlement has not produced again since, returns false and leaves
\* treasury_balance, entries and pending_entries unchanged.
C7_CommitOfClosedId ==
    \A id \in closed :
        LET r == commit_entry(ledger, id)
        IN  ~r.ret /\ r.ledger = ledger

\* one id is closed by a commit and another by a rollback
C7_Witness ==
    /\ \E id \in closed : \E i \in DOMAIN ledger.entries : ledger.entries[i].entry_id = id
    /\ \E id \in closed : \A i \in DOMAIN ledger.entries : ledger.entries[i].entry_id # id

-----------------------------------------------------------------------------
(***************************************************************************)
(* Settlement at the end of a board game                                   *)
(***************************************************************************)

\* C2: when the game-over handler of a match whose room was IN_PROGRESS at
\* game_over has finished, and its escrow step did not report failure, it has
\* created a ledger entry, committed it, and the commit raised the treasury
\* balance by total_fee = 2 * round(bet * rate, 2).
C2_WinnerSettlementCommitted ==
    (done # None /\ done[1].from_state = "IN_PROGRESS" /\ done[1].escrow # "failed")
    => /\ done[1].created
       /\ done[1].committed
       /\ done[1].delta = calculate_fee(done[1].bet, 2).total_fee

\* C3: a game-over handler whose settlement failed has neither moved the room
\* to COMPLETED nor removed it from the active matches.
C3_FailedSettlementKeepsRoom ==
    (done # None /\ done[1].failed) => ~done[1].completed /\ ~done[1].removed

\* the ledger entries, pending or committed, of match m
EntriesOf(L, m) ==
    {L.pending_entries[id] : id \in {x \in DOMAIN L.pending_entries :
                                        L.pending_entries[x].match_id = m}}
    \cup {L.entries[i] : i \in {j \in DOMAIN L.entries : L.entries[j].match_id = m}}

\* the ids of entries that settlements still waiting for their escrow step hold
HeldEntryIds(ts) ==
    {ts[t].entry_id[1] : t \in {x \in TaskIds : /\ ts[x].kind = "game_over"
                                                  /\ ts[x].pc = "settle_escrow"}}

\* C4: a step of a settlement other than its successful commit leaves the
\* treasury balance and the committed entries as they are, and the step at
\* which a settlement fails (create_match_settlement raises, or the escrow
\* step reports failure) leaves no entry of its match pending, apart from
\* entries of settlements that are still waiting for their escrow step.
C4_SettlementAllOrNothing ==
    [][\A t \in TaskIds :
          (tasks[t].kind = "game_over" /\ tasks'[t] # tasks[t]) =>
             /\ (tasks'[t].kind = "game_over" /\ tasks'[t].escrow = "ok"
                                              /\ tasks[t].escrow = "none")
                \/ (/\ ledger'.treasury_balance = ledger.treasury_balance
                    /\ ledger'.entries = ledger.entries)
             /\ (tasks'[t].kind = "game_over" /\ tasks'[t].failed /\ ~tasks[t].failed) =>
                   \A id \in DOMAIN ledger'.pending_entries :
                      \/ ledger'.pending_entries[id].match_id # tasks[t].m
                      \/ id \in HeldEntryIds(tasks')
      ]_vars

\* a settlement whose escrow step reported failure after its entry was
\* created has finished, with an entry committed before it
C4_Witness ==
    /\ done # None
    /\ done[1].created
    /\ done[1].escrow = "failed"
    /\ Len(ledger.entries) > 0

\* C8: no step takes a room that is IN_PROGRESS out of the active matches or
\* changes the ledger entries of its match (a room is settled and torn down
\* only after it has left IN_PROGRESS for VALIDATION and SETTLEMENT).
C8_NotSettledInProgress ==
    [][\A m \in DOMAIN active_matches :
          active_matches[m].state = "IN_PROGRESS" =>
             /\ m \in DOMAIN active_matches'
             /\ EntriesOf(ledger', m) = EntriesOf(ledger, m)
      ]_vars

-----------------------------------------------------------------------------
(***************************************************************************)
(* Entering LOCKED                                                         *)
(***************************************************************************)

\* C9: every step that takes a room from MATCHMAKING to LOCKED starts in a
\* state where every player of the room that is not the bot has is_ready set.
C9_LockedOnlyWhenAllReady ==
    [][\A m \in DOMAIN active_matches :
          (/\ active_matches[m].state = "MATCHMAKING"
           /\ m \in DOMAIN active_matches'
           /\ active_matches'[m].state = "LOCKED")
          => \A u \in RoomPlayers(active_matches[m]) :
                u = BOT_USER_ID \/ u \in active_matches[m].is_ready
      ]_vars

\* a room has been locked on the request of its second player
C9_Witness ==
    \E m \in DOMAIN active_matches :
       /\ active_matches[m].state = "LOCKED"
       /\ active_matches[m].is_ready = RoomPlayers(active_matches[m])
       /\ \E t \in TaskIds : tasks[t].kind = "player_ready" /\ tasks[t].pc = "soft_lock"
                             /\ tasks[t].m = m

\* C10: once the soft lock of a room has failed and been reverted, every
\* player's locks minus unlocks for that room are zero and the room is
\* CANCELLED.
C10_FailedLockRefundsAndCancels ==
    \A m \in lock_failed :
       /\ \A u \in Users : escrow[<<m, u>>] = 0
       /\ m \in DOMAIN active_matches
       /\ active_matches[m].state = "CANCELLED"

-----------------------------------------------------------------------------
(***************************************************************************)
(* Leaving LOCKED                                                          *)
(***************************************************************************)

\* C11: every step that takes a room from LOCKED to IN_PROGRESS ends with
\* escrow_confirmed set for every player of the room that is not the bot,
\* and confirm_escrow, from any session and for any match id, changes
\* nothing when the room it names is not LOCKED.
C11_StartOnlyWhenAllConfirmed ==
    [][/\ \A m \in DOMAIN active_matches :
             (/\ active_matches[m].state = "LOCKED"
              /\ m \in DOMAIN active_matches'
              /\ active_matches'[m].state = "IN_PROGRESS")
             => \A u \in RoomPlayers(active_matches'[m]) :
                   u = BOT_USER_ID \/ u \in active_matches'[m].escrow_confirmed
       /\ \A sid \in Users, m \in 1..(MaxMatches + 1) :
             (m \in DOMAIN active_matches => active_matches[m].state # "LOCKED")
             => confirm_escrow(active_matches, sid_to_user, sid, m, now) = active_matches
      ]_vars

\* a room has started on the confirmation of its second player, and a room
\* that is no longer LOCKED is there for confirm_escrow to be sent to
C11_Witness ==
    \E m \in DOMAIN active_matches :
       /\ active_matches[m].state = "IN_PROGRESS"
       /\ active_matches[m].escrow_confirmed = RoomPlayers(active_matches[m])
       /\ active_matches[m].started_at # None

\* C12: a room is not LOCKED any more once more than the confirmation
\* timeout has passed since it was locked.
C12_LockedRoomTimesOut ==
    \A m \in DOMAIN active_matches :
       active_matches[m].state = "LOCKED"
       => now <= active_matches[m].locked_at[1] + ESCROW_CONFIRMATION_TIMEOUT

\* C13: once more than the grace period has passed since a player of a room
\* was marked disconnected, the room is no longer LOCKED or IN_PROGRESS (the
\* player has forfeited and the room has gone on to settlement).
C13_DisconnectedPlayerForfeits ==
    \A m \in DOMAIN active_matches :
       \A u \in DOMAIN active_matches[m].disconnected_at :
          now > active_matches[m].disconnected_at[u] + GRACE_PERIOD
          => active_matches[m].state \notin {"LOCKED", "IN_PROGRESS"}

\* C14: a room in VALIDATION eventually is in SETTLEMENT or DISPUTED.
C14_ValidationEnds ==
    \A m \in MatchIds :
       (m \in DOMAIN active_matches /\ active_matches[m].state = "VALIDATION")
       ~> (m \in DOMAIN active_matches
           /\ active_matches[m].state \in {"SETTLEMENT", "DISPUTED"})

-----------------------------------------------------------------------------
(***************************************************************************)
(* Matchmaking                                                             *)
(***************************************************************************)

\* C15: whenever add_to_matchmaking returns a room, for any account, key and
\* device, the room holds two different accounts and neither of them is
\* left in the queue of that key.
C15_RoomOfTwoNoneQueued ==
    \A u \in Users, bet \in Bets, d \in Devices :
       LET r == add_to_matchmaking(MatchmakingEntry(u, u, d), bet)
       IN  r.room # None =>
              LET room == r.active_matches[r.room[1]]
              IN  /\ room.players[1] # room.players[2]
                  /\ \A i \in DOMAIN r.queue : r.queue[i].user_id \notin RoomPlayers(room)

\* C16: whenever add_to_matchmaking finds no opponent of another account,
\* with bots enabled it returns a room of the requester and the house bot and
\* leaves the queue as it is, with bots disabled it returns no room and
\* appends the requester to the queue.
C16_BotRoomOrQueued ==
    \A u \in Users, bet \in Bets, d \in Devices :
       LET entry == MatchmakingEntry(u, u, d)
           r     == add_to_matchmaking(entry, bet)
       IN  first_opponent(matchmaking_queue[bet], u) = 0 =>
              IF enable_bot
              THEN /\ ~r.raised
                   /\ r.room # None
                   /\ RoomPlayers(r.active_matches[r.room[1]]) = {u, BOT_USER_ID}
                   /\ r.queue = matchmaking_queue[bet]
              ELSE /\ ~r.raised
                   /\ r.room = None
                   /\ r.queue = Append(matchmaking_queue[bet], entry)

\* C17: after cancel_matchmaking from a session for a key, no entry of that
\* session's account is in the queue of that key, and when there was none
\* before, every queue is as it was.
C17_CancelRemovesFromQueue ==
    \A sid \in Users, bet \in Bets :
       LET after  == cancel_matchmaking(matchmaking_queue, sid_to_user, sid, bet)
           queued == \E i \in DOMAIN matchmaking_queue[bet] :
                        matchmaking_queue[bet][i].user_id = sid
       IN  /\ \A i \in DOMAIN after[bet] : after[bet][i].user_id # sid
           /\ ~queued => after = matchmaking_queue

\* the two players of a room joined from the same device, or the second of
\* them is known to have used the device of the first
HighRisk(d2u, room) ==
    \/ room.device_fingerprint[room.players[1]] = room.device_fingerprint[room.players[2]]
    \/ /\ room.device_fingerprint[room.players[1]] \in DOMAIN d2u
       /\ room.players[2] \in d2u[room.device_fingerprint[room.players[1]]]

C19_MoveSequenceIsLogLength ==
    \A m \in DOMAIN active_matches :
       /\ active_matches[m].move_sequence = Len(active_matches[m].moves_log)
       /\ \A i \in DOMAIN active_matches[m].moves_log :
             active_matches[m].moves_log[i].sequence = i

\* both players have moves in the log of a room, in both orders of arrival
C19_Witness ==
    \E m \in DOMAIN active_matches :
       /\ Len(active_matches[m].moves_log) = MaxMoves
       /\ active_matches[m].moves_log[1].player_id # active_matches[m].moves_log[2].player_id
       /\ active_matches[m].moves_log[3].player_id = active_matches[m].moves_log[1].player_id

-----------------------------------------------------------------------------
(***************************************************************************)
(* Board game                                                              *)
(***************************************************************************)

\* C20: in every state of the engine and for every caller, client seed and
\* piece id, roll_dice is accepted only in ROLLING from the current
\* player, move_piece only in MOVING from the current player for a piece that
\* can move by the rolled value, and a call that returns an error leaves the
\* engine exactly as it was.
C20_RejectedCallsChangeNothing ==
    LET g == ludo_games[1]
    IN  /\ \A u \in Users, client_seed \in ClientSeeds :
             LET r == roll_dice(g, u, client_seed)
             IN  /\ ~r.error <=> (g.state = "ROLLING" /\ u = current_user_id(g))
                 /\ r.error => r.engine = g
        /\ \A u \in Users, piece_id \in PieceIds :
             LET r == move_piece(g, u, piece_id)
             IN  /\ ~r.error <=> /\ g.state = "MOVING"
                                 /\ u = current_user_id(g)
                                 /\ piece_id \in get_available_moves(g, g.current_roll[1].value)
                 /\ r.error => r.engine = g

\* a piece has been moved, and the engine is MOVING with a piece of the
\* current player that cannot move by the rolled value
C20_Witness ==
    LET g == ludo_games[1]
    IN  /\ g.state = "MOVING"
        /\ g.moves_history # <<>>
        /\ \E k \in 0..(PIECES_PER_PLAYER - 1) :
              k \notin get_available_moves(g, g.current_roll[1].value)

\* the number of sixes the current player has rolled and moved by in a row
\* up to now: the last moves of the history that are of the current player,
\* by a 6, and by the last rolls of the dice
TrailingSixes(g) ==
    LET h    == g.moves_history
        Six(j) == /\ h[Len(h) - j].player = g.color[current_user_id(g)]
                  /\ h[Len(h) - j].dice_roll.value = 6
                  /\ h[Len(h) - j].dice_roll.nonce = g.nonce - j
        ks   == {k \in 0..Len(h) : \A j \in 0..(k - 1) : Six(j)}
    IN  CHOOSE k \in ks : \A o \in ks : o <= k

\* C21: when the current player, having rolled and moved by two sixes in a
\* row, rolls a third 6, the turn is the next player's, the counter of sixes
\* is 0, every piece is where it was and moves_history is as it was.
C21_ThirdSixForfeitsTurn ==
    LET g == ludo_games[1]
    IN  \A client_seed \in ClientSeeds :
           LET u      == current_user_id(g)
               seeded == IF client_seed = None THEN g
                         ELSE set_client_seed(g, u, client_seed[1])
               r      == roll_dice(g, u, client_seed)
           IN  (/\ g.state = "ROLLING"
                /\ TrailingSixes(g) = 2
                /\ roll(seeded, u).roll.value = 6)
               => /\ ~r.error
                  /\ r.engine.state = "ROLLING"
                  /\ r.engine.current_player_index
                        = (g.current_player_index + 1) % Len(g.player_order)
                  /\ r.engine.consecutive_sixes = 0
                  /\ r.engine.pieces = g.pieces
                  /\ r.engine.moves_history = g.moves_history

\* the third 6 in a row has been rolled: the last two moves are alice's, by
\* the first two rolls, and after the third roll it is bob's turn
C21_Witness ==
    LET g == ludo_games[1]
    IN  /\ g.nonce = 3
        /\ g.server_seed[3] = 6
        /\ Len(g.moves_history) = 2
        /\ g.moves_history[1].dice_roll.value = 6
        /\ g.moves_history[2].dice_roll.value = 6
        /\ g.client_seeds = EmptyDict
        /\ current_user_id(g) = "bob"
        /\ g.state = "ROLLING"

\* C22: a 6 that is not the third in a row leaves the turn with the player
\* who rolled it, and the move made by it leaves that player to roll again,
\* unless the move ends the game.
C22_SixRollsAgain ==
    LET g == ludo_games[1]
        u == current_user_id(g)
    IN  /\ (/\ g.state = "ROLLING"
            /\ TrailingSixes(g) < 2
            /\ roll(g, u).roll.value = 6)
           => current_user_id(roll_dice(g, u, None).engine) = u
        /\ (/\ g.state = "MOVING"
            /\ g.current_roll[1].value = 6)
           => \A piece_id \in get_available_moves(g, 6) :
                 LET after == move_piece(g, u, piece_id).engine
                 IN  \/ after.state = "COMPLETED"
                     \/ after.state = "ROLLING" /\ current_user_id(after) = u

\* the cell of the ring a piece stands on, if it is ACTIVE
OnCell(piece, cell) == piece.state = "ACTIVE" /\ piece.position = cell

\* C23: by any move of the current player, a piece goes from ACTIVE to HOME
\* only if it is an opponent's and the moved piece comes to stand on its
\* cell, which is not a safe cell; and when the moved piece comes to stand on
\* a cell that is not safe, every opponent's piece on that cell goes HOME and
\* the mover's captures_made grows by exactly 1 if there is one.
C23_CaptureOnlyOffSafeCells ==
    LET g == ludo_games[1]
        u == current_user_id(g)
    IN  g.state = "MOVING" =>
          \A piece_id \in get_available_moves(g, g.current_roll[1].value) :
             LET after == move_piece(g, u, piece_id).engine
                 moved == after.pieces[u][piece_id + 1]
                 hit   == {vk \in Users \X (1..PIECES_PER_PLAYER) :
                             /\ vk[1] # u
                             /\ moved.state = "ACTIVE"
                             /\ moved.position \notin SAFE_POSITIONS
                             /\ OnCell(g.pieces[vk[1]][vk[2]], moved.position)}
             IN  /\ \A v \in Users, k \in 1..PIECES_PER_PLAYER :
                       (g.pieces[v][k].state = "ACTIVE" /\ after.pieces[v][k].state = "HOME")
                       => <<v, k>> \in hit
                 /\ \A vk \in hit : after.pieces[vk[1]][vk[2]].state = "HOME"
                 /\ after.captures_made[u]
                       = g.captures_made[u] + (IF hit = {} THEN 0 ELSE 1)

\* all the pieces of a player are FINISHED
AllFinished(g, u) == \A k \in 1..PIECES_PER_PLAYER : g.pieces[u][k].state = "FINISHED"

\* C24: the engine is COMPLETED exactly when some player has all four pieces
\* FINISHED, that player is then the winner, and in a COMPLETED engine every
\* roll_dice and move_piece returns an error and leaves the engine, with its
\* pieces, winner and rankings, as it is.
C24_CompletedIffAllFinished ==
    LET g == ludo_games[1]
    IN  /\ g.state = "COMPLETED" <=> \E u \in Users : AllFinished(g, u)
        /\ g.state = "COMPLETED"
           => /\ g.winner # None
              /\ AllFinished(g, g.winner[1])
              /\ g.rankings[1] = g.winner[1]
              /\ \A u \in Users, client_seed \in ClientSeeds :
                    /\ roll_dice(g, u, client_seed).error
                    /\ roll_dice(g, u, client_seed).engine = g
              /\ \A u \in Users, piece_id \in PieceIds :
                    /\ move_piece(g, u, piece_id).error
                    /\ move_piece(g, u, piece_id).engine = g
        /\ g.state # "COMPLETED" => g.winner = None /\ g.rankings = <<>>

\* alice has won the game
C24_Witness ==
    /\ ludo_games[1].state = "COMPLETED"
    /\ ludo_games[1].winner = Some("alice")
    /\ ludo_games[1].rankings = <<"alice", "bob">>

-----------------------------------------------------------------------------
(***************************************************************************)
(* Fair dice                                                               *)
(***************************************************************************)

\* C25: every DiceRoll that roll returns in a game, for any player and with
\* any client seed set, and every DiceRoll the engine keeps, passes
\* verify_roll with the server seed of the game.
C25_EveryRollVerifies ==
    LET g == ludo_games[1]
    IN  /\ \A u \in Users, client_seed \in ClientSeeds :
              LET seeded == IF client_seed = None THEN g
                            ELSE set_client_seed(g, u, client_seed[1])
              IN  verify_roll(roll(seeded, u).roll, g.server_seed)
        /\ g.current_roll # None => verify_roll(g.current_roll[1], g.server_seed)
        /\ \A i \in DOMAIN g.moves_history :
              verify_roll(g.moves_history[i].dice_roll, g.server_seed)

\* a player has moved by two rolls made with different client seeds, and the
\* other player has rolled after them
C25_Witness ==
    LET h == ludo_games[1].moves_history
    IN  /\ Len(h) >= 2
        /\ h[1].player = h[2].player
        /\ h[1].dice_roll.client_seed # h[2].dice_roll.client_seed
        /\ ludo_games[1].nonce > h[2].dice_roll.nonce
        /\ current_user_id(ludo_games[1]) = "alice"

\* the client seed that a roll of the player would use
SeedInUse(g, u) == IF u \in DOMAIN g.client_seeds THEN g.client_seeds[u] ELSE "default"

\* a roll that the engine keeps has used the seed the player has set
SeedUsed(g, u) ==
    /\ u \in DOMAIN g.client_seeds
    /\ \/ \E i \in DOMAIN g.moves_history :
             /\ g.moves_history[i].player = g.color[u]
             /\ g.moves_history[i].dice_roll.client_seed = g.client_seeds[u]
       \/ /\ g.current_roll # None
          /\ current_user_id(g) = u
          /\ g.current_roll[1].client_seed = g.client_seeds[u]

\* C26: once a roll has used the client seed of a player, neither
\* set_client_seed nor roll_dice with a client seed changes the seed that
\* the rolls of this player use.
C26_ClientSeedFixedAfterUse ==
    LET g == ludo_games[1]
    IN  \A u \in Users, seed \in {"seed", "seed2"} :
           SeedUsed(g, u)
           => /\ SeedInUse(set_client_seed(g, u, seed), u) = SeedInUse(g, u)
              /\ SeedInUse(roll_dice(g, u, Some(seed)).engine, u) = SeedInUse(g, u)

\* a result holds the server seed itself
Reveals(result) == \E term \in result : term[1] = "raw"

\* C27: while the game is not COMPLETED, no result of start_game, roll_dice
\* or get_state, no DiceRoll, and no result of a move_piece that does not end
\* the game holds the server seed itself; the result of the move that ends
\* the game does.
C27_SeedHiddenUntilGameOver ==
    LET g == ludo_games[1]
    IN  g.state # "COMPLETED"
        => /\ ~Reveals(start_game_result(g))
           /\ ~Reveals(get_state(g))
           /\ g.current_roll # None => ~Reveals(DiceRollTerms(g.current_roll[1]))
           /\ \A i \in DOMAIN g.moves_history :
                 ~Reveals(DiceRollTerms(g.moves_history[i].dice_roll))
           /\ \A u \in Users, client_seed \in ClientSeeds :
                 /\ ~Reveals(roll_dice_result(g, u, client_seed))
                 /\ ~Reveals(DiceRollTerms(roll(g, u).roll))
           /\ \A u \in Users, piece_id \in PieceIds :
                 Reveals(move_piece_result(g, u, piece_id))
                 <=> /\ ~move_piece(g, u, piece_id).error
                     /\ move_piece(g, u, piece_id).engine.state = "COMPLETED"

\* the move that ends the game is about to be made: its result reveals the seed
C27_Witness ==
    LET g == ludo_games[1]
    IN  /\ g.state = "MOVING"
        /\ g.moves_history # <<>>
        /\ \E piece_id \in PieceIds :
              Reveals(move_piece_result(g, current_user_id(g), piece_id))


-----------------------------------------------------------------------------
(***************************************************************************)
(* Claims on LK-SHIELD (SpecShield)                                        *)
(***************************************************************************)
\* the requests of an account in the log that are less than 60 s old at time t
RecentRequests(user_id, t) ==
    {i \in DOMAIN shield_log :
        shield_log[i].user_id = user_id /\ shield_log[i].t > t - 60}

\* the verdict of the first failing check, in the order of the claim
FirstFailingCheck(profile, bet_amount) ==
    IF profile.is_frozen THEN "DENIED_FROZEN"
    ELSE IF /\ profile.user_id \in DOMAIN security_store.quarantine
            /\ now <= security_store.quarantine[profile.user_id]
    THEN "DENIED_QUARANTINE"
    ELSE IF profile.trust_score < 30 THEN "DENIED_LOW_TRUST"
    ELSE IF bet_amount >= 100 /\ profile.kyc_status # "VERIFIED" THEN "DENIED_KYC"
    ELSE IF Cardinality(RecentRequests(profile.user_id, now)) + 1 > 10
    THEN "DENIED_RATE_LIMIT"
    ELSE "NONE"

\* C28: verify_player returns the verdict of the first failing check in the
\* order frozen, quarantine, trust score below 30, high stake without KYC,
\* rate limit (and approves or asks for review when none fails), and a
\* request denied by one of the first four checks leaves the recorded match
\* requests, IP usage and device usage as they were
C28_FirstFailingCheckDecides ==
    \A profile \in ShieldProfiles, bet_amount \in ShieldBets :
        LET r == verify_player(security_store, device_to_users, profile,
                               bet_amount, now)
            first == FirstFailingCheck(profile, bet_amount)
        IN  /\ first # "NONE" => r.verdict = first
            /\ first = "NONE" => r.verdict \in {"APPROVED", "REVIEW_REQUIRED"}
            /\ r.verdict \in {"DENIED_FROZEN", "DENIED_QUARANTINE",
                              "DENIED_LOW_TRUST", "DENIED_KYC"}
                 => /\ r.store.match_requests = security_store.match_requests
                    /\ r.store.ip_to_users = security_store.ip_to_users
                    /\ r.store.user_ips = security_store.user_ips
                    /\ r.device_to_users = device_to_users

\* an account in quarantine that has used up its ten requests of the minute
\* asks again with a low trust score and a high stake without KYC
C28_Witness ==
    \E profile \in ShieldProfiles :
        /\ ~profile.is_frozen
        /\ profile.trust_score < 30
        /\ profile.kyc_status # "VERIFIED"
        /\ Cardinality(RecentRequests(profile.user_id, now)) >= 10
        /\ security_store.ip_to_users # EmptyDict
        /\ verify_player(security_store, device_to_users, profile,
                         HIGH_STAKE_THRESHOLD, now).verdict = "DENIED_QUARANTINE"

\* the logged requests of the account of request i, up to and including i,
\* that are less than 60 s older than it
WindowUpTo(i) ==
    {j \in 1..i : /\ shield_log[j].user_id = shield_log[i].user_id
                  /\ shield_log[j].t > shield_log[i].t - 60}

\* C29 (amended): a request that reaches the rate-limit check is denied with
\* DENIED_RATE_LIMIT exactly when more than 10 requests of the account, itself
\* and the denied ones included, reached the check in the 60 s up to it, and
\* the denial carries retry_after = 60
C29_LimitedIffOverTenInLastMinute ==
    /\ \A i \in DOMAIN shield_log :
          shield_log[i].limited <=> Cardinality(WindowUpTo(i)) > 10
    /\ \A profile \in ShieldProfiles, bet_amount \in ShieldBets :
          LET r == verify_player(security_store, device_to_users, profile,
                                 bet_amount, now)
          IN  r.verdict = "DENIED_RATE_LIMIT" => r.retry_after = Some(60)

\* a request is rate-limited and a later one of the account is not
C29_Witness ==
    \E i, j \in DOMAIN shield_log :
        /\ i < j
        /\ shield_log[i].user_id = shield_log[j].user_id
        /\ shield_log[i].limited
        /\ ~shield_log[j].limited

\* the logged requests of an account in the 60 s window that starts at w
WindowFrom(user_id, w) ==
    {i \in DOMAIN shield_log : /\ shield_log[i].user_id = user_id
                               /\ shield_log[i].t >= w
                               /\ shield_log[i].t < w + 60}

\* C29: within any 60 s window, the first 10 requests of an account that
\* reach the rate-limit check are not rate-limited and every further request
\* in that window is
C29_FirstTenOfAnyWindowPass ==
    \A user_id \in ShieldUsers, w \in 0..MaxClock :
        \A i \in WindowFrom(user_id, w) :
            shield_log[i].limited
              <=> Cardinality({j \in WindowFrom(user_id, w) : j < i}) >= 10

-----------------------------------------------------------------------------
(***************************************************************************)
(* Claims on the jitter detector (SpecJitter)                              *)
(***************************************************************************)
\* C30: after the analysis of a heartbeat, every timestamp kept in the
\* profile's spike_timestamps is at most 60 s older than that sample, so
\* that spike_count >= 3 counts spikes of the last 60 s only
C30_SpikesWithinLastMinute ==
    \A u \in DOMAIN jitter_profiles :
        LET profile == jitter_profiles[u]
        IN  \A i \in DOMAIN profile.spike_timestamps :
               profile.spike_timestamps[i] >= profile.last_heartbeat - 60

\* the accounts with an entry in a list of disconnects
Disconnected(recent) == {recent[i][1] : i \in DOMAIN recent}

\* the class of a disconnect of user_id as the claim gives it, when recent
\* holds the disconnects of the last 30 s
ClaimedDisconnectType(user_id, recent) ==
    IF /\ active_players # EmptyDict
       /\ 100 * Cardinality(Disconnected(recent))
             >= 20 * Cardinality(DOMAIN active_players)
    THEN "MASS_OUTAGE"
    ELSE IF jitter_profiles[user_id].is_flagged THEN "LAG_SWITCH"
    ELSE IF Len(jitter_profiles[user_id].spike_timestamps) >= 2 THEN "SUSPICIOUS"
    ELSE "GENUINE"

\* C31: a disconnect is classified MASS_OUTAGE exactly when the distinct
\* accounts that disconnected in the last 30 s are at least 0.20 of the
\* active players, else LAG_SWITCH for a flagged account, else SUSPICIOUS
\* for one with two spikes or more, else GENUINE; a further missed-heartbeat
\* check of the same account does not raise the fraction
C31_DisconnectClassifiedByAccounts ==
    \A u \in Watched :
        LET r == check_missed_heartbeat(jitter_profiles, recent_disconnects,
                                        active_players, u, now)
        IN  r.analysis # None
              => r.analysis[1].disconnect_type
                    = ClaimedDisconnectType(u, r.recent_disconnects)

-----------------------------------------------------------------------------
(***************************************************************************)
(* Claims on the RakeCalculator (SpecRake); amounts are in hundredths      *)
(***************************************************************************)
\* C32: the rate is 8 % for bets in [1, 10], 6 % for bets in [11, 50] and
\* 5 % for bets of 51 and above (so 10 -> 8 %, 11 -> 6 %, 50 -> 6 %,
\* 51 -> 5 %), and the fee of a player is the bet times that rate, rounded
\* to the hundredth
C32_RateByTier ==
    fee_result # None =>
        LET bet  == fee_result[1].bet_amount
            r    == fee_result[1].result
            rate == IF 100 <= bet /\ bet <= 1000 THEN 8
                    ELSE IF 1100 <= bet /\ bet <= 5000 THEN 6
                    ELSE 5
        IN  (bet >= 100 /\ bet <= 1000) \/ (bet >= 1100 /\ bet <= 5000) \/ bet >= 5100
              => /\ r.rake_rate = rate
                 /\ 100 * r.fee_per_player - bet * rate \in -50..50

\* the fee of a bet of exactly 50 was computed
C32_Witness ==
    /\ fee_result # None
    /\ fee_result[1].bet_amount = 5000
    /\ fee_result[1].result.fee_per_player = 300

-----------------------------------------------------------------------------
(***************************************************************************)
(* Claims on the handlers under interleaving (Spec)                        *)
(***************************************************************************)
\* C33: in a room that is IN_PROGRESS every player's bet is locked: locks
\* minus unlocks of the room are bet_amount for each of its players
C33_InProgressOnlyWithLockedBets ==
    \A m \in DOMAIN active_matches :
        active_matches[m].state = "IN_PROGRESS"
          => \A u \in RoomPlayers(active_matches[m]) :
                u = BOT_USER_ID \/ escrow[<<m, u>>] = active_matches[m].bet_amount

\* a player_ready handler of room m is inside _execute_soft_lock or its revert
InSoftLock(t, m) ==
    /\ tasks[t].kind = "player_ready"
    /\ tasks[t].pc \in {"soft_lock", "revert"}
    /\ tasks[t].m = m

\* C34: the soft lock is executed at most once per room: a handler enters
\* _execute_soft_lock only in the step that takes the room from MATCHMAKING to
\* LOCKED, while no other handler of the room is in it, and no room ever
\* returns to MATCHMAKING
C34_SoftLockAtMostOncePerRoom ==
    [][/\ \A t \in TaskIds :
              ( /\ tasks'[t].kind = "player_ready"
                /\ tasks'[t].pc = "soft_lock"
                /\ ~(tasks[t].kind = "player_ready" /\ tasks[t].pc = "soft_lock") )
                => LET m == tasks'[t].m
                   IN  /\ m \in DOMAIN active_matches
                       /\ active_matches[m].state = "MATCHMAKING"
                       /\ active_matches'[m].state = "LOCKED"
                       /\ \A t2 \in TaskIds : ~InSoftLock(t2, m)
                       /\ \A u \in RoomPlayers(active_matches[m]) : escrow[<<m, u>>] = 0
       /\ \A m \in DOMAIN active_matches \cap DOMAIN active_matches' :
              active_matches[m].state # "MATCHMAKING"
                => active_matches'[m].state # "MATCHMAKING"]_vars

\* while one handler is in the soft lock of a LOCKED room, the handler of a
\* further player_ready of the same room is about to ask for LOCKED again
C34_Witness ==
    \E t1, t2 \in TaskIds :
        /\ tasks[t1].kind = "player_ready"
        /\ tasks[t1].pc = "soft_lock"
        /\ tasks[t1].i = 2
        /\ tasks[t2].kind = "player_ready"
        /\ tasks[t2].pc = "notified"
        /\ tasks[t2].m = tasks[t1].m
        /\ tasks[t1].m \in DOMAIN active_matches
        /\ active_matches[tasks[t1].m].state = "LOCKED"
        /\ all_players_ready(active_matches[tasks[t1].m])

-----------------------------------------------------------------------------
(***************************************************************************)
(* SpecRooms: join_matchmaking by three accounts, also by accounts that    *)
(* are already players of a room (neither the handler nor verify_player    *)
(* nor add_to_matchmaking looks at player_to_match), until MaxRooms rooms  *)
(* were created; cleanup_match runs where _handle_match_found suspects     *)
(* collusion.                                                              *)
(***************************************************************************)
NextRooms ==
    \/ \E u \in Users \cup {"carol"}, bet \in Bets, d \in Devices :
          JoinMatchmakingWithin(u, u, bet, d, MaxWaiting, MaxRooms)
    \/ \E sid \in Users \cup {"carol"}, bet \in Bets : CancelMatchmaking(sid, bet)

SpecRooms == InitMatchmaking /\ [][NextRooms]_vars

\* C35: every player of every active room is mapped by player_to_match to
\* that room's id
C35_PlayersMappedToTheirRoom ==
    \A m \in DOMAIN active_matches :
        \A u \in RoomPlayers(active_matches[m]) :
            u \in DOMAIN player_to_match /\ player_to_match[u] = m

-----------------------------------------------------------------------------
(***************************************************************************)
(* SpecOutsider: two rooms; the players of the first one get ready, lock   *)
(* and confirm, the players of the second one (whose sessions _create_match*)
(* has put into sid_to_user) send the room-bound events with the id of the *)
(* first room.                                                             *)
(***************************************************************************)
Sessions == Users \cup {"carol", "dave"}

NextOutsider ==
    \/ match_count = 0 /\ CreateMatch("alice", "bob", 2500)
    \/ match_count = 1 /\ CreateMatch("carol", "dave", 2500)
    \/ \E sid \in Users : PlayerReady(sid, 1)
    \/ \E t \in TaskIds : TransitionToLocked(t)
    \/ \E t \in TaskIds, sufficient \in BOOLEAN, locked \in BOOLEAN :
          ExecuteSoftLock(t, sufficient, locked)
    \/ \E t \in TaskIds : RevertSoftLock(t)
    \/ \E sid \in Sessions, m \in 1..FsmRooms : ConfirmEscrow(sid, m)
    \/ \E sid \in Sessions, m \in 1..FsmRooms, move_type \in MoveTypes :
          GameMove(sid, m, move_type)
    \/ \E sid \in Sessions, m \in 1..FsmRooms : SubmitGameResult(sid, m)
    \/ \E sid \in Sessions, m \in 1..FsmRooms : LudoStartGame(sid, m)

SpecOutsider == InitFSM /\ [][NextOutsider]_vars

\* what C36 protects of room m: FSM state, move log, board-game engine
RoomView(rs, games, m) ==
    <<rs[m].state, rs[m].moves_log, IF m \in DOMAIN games THEN Some(games[m]) ELSE None>>

\* C36: game_move, submit_game_result, ludo_start_game and confirm_escrow sent
\* by an account that is not a player of room m leave the FSM state, the move
\* log and the board-game engine of m as they were
C36_OutsiderChangesNothing ==
    [][\A sid \in DOMAIN sid_to_user, m \in DOMAIN active_matches :
          ( /\ sid_to_user[sid] \notin RoomPlayers(active_matches[m])
            /\ \/ \E move_type \in MoveTypes : GameMove(sid, m, move_type)
               \/ SubmitGameResult(sid, m)
               \/ LudoStartGame(sid, m)
               \/ ConfirmEscrow(sid, m) )
            => RoomView(active_matches', ludo_games', m)
                 = RoomView(active_matches, ludo_games, m)]_vars

-----------------------------------------------------------------------------
(***************************************************************************)
(* SpecRestart: the board game of SpecLudo, whose room stays IN_PROGRESS   *)
(* while it is played, and ludo_start_game sent again for the same match.  *)
(***************************************************************************)
\* ludo_start_game for match 1 when ludo_games already holds a started engine:
\* LudoEngine(match_id, player_ids), with the server seed that its dice draw,
\* is stored under the match id and started
LudoStartGameAgain(server_seed) ==
    /\ ludo_games[1].state \notin {"WAITING", "COMPLETED"}
    /\ ludo_games' = DictPut(ludo_games, 1,
                              start_game(NewLudoEngine(LudoPlayers, server_seed)).engine)
    /\ UNCHANGED <<now, enable_bot, guardVars, active_matches, match_count, player_to_match,
                   sid_to_user, matchmaking_queue, device_to_users, tasks, escrow,
                   lock_failed, done, ledgerVars>>

\* the seed a further engine draws is none of ServerSeeds:
\* secrets.token_hex(32) does not repeat
NextRestart ==
    \/ NextLudo
    \/ \E server_seed \in ServerSeeds : LudoStartGameAgain(Append(server_seed, DICE_MIN))

SpecRestart == InitLudo /\ [][NextRestart]_vars

\* C37: the engine of a match, once started, is never replaced or reset: its
\* dice keep their server seed and their nonce never falls, the move history
\* only grows, and pieces and turn change only with a roll or a move
C37_StartedEngineIsKept ==
    [][ludo_games[1].state # "WAITING"
         => /\ ludo_games'[1].server_seed = ludo_games[1].server_seed
            /\ ludo_games'[1].nonce >= ludo_games[1].nonce
            /\ Len(ludo_games'[1].moves_history) >= Len(ludo_games[1].moves_history)
            /\ SubSeq(ludo_games'[1].moves_history, 1, Len(ludo_games[1].moves_history))
                 = ludo_games[1].moves_history
            /\ ( ludo_games'[1].nonce = ludo_games[1].nonce
                 /\ ludo_games'[1].moves_history = ludo_games[1].moves_history )
                 => /\ ludo_games'[1].pieces = ludo_games[1].pieces
                    /\ ludo_games'[1].current_player_index
                         = ludo_games[1].current_player_index]_vars

-----------------------------------------------------------------------------
(***************************************************************************)
(* SpecSeeds: one room of alice and bob with its server_seed field (the    *)
(* other specifications leave it out of MatchRoom), taken by the handlers  *)
(* to IN_PROGRESS, and its board game with the seed of its own dice.  Both *)
(* seeds are draws of secrets.token_hex(32); a seed is written as in       *)
(* ServerSeeds.                                                            *)
(***************************************************************************)
SeedChoices == {<<6, 1, 6>>, <<6, 2, 6>>}

\* _create_match for alice and bob; MatchRoom.server_seed is drawn by the
\* default factory of the field
CreateSeededMatch(server_seed) ==
    /\ match_count = 0
    /\ LET r == create_match(MatchmakingEntry("alice", "alice", "alice"),
                             MatchmakingEntry("bob", "bob", "bob"), 2500)
       IN  /\ match_count' = r.match_id
           /\ active_matches' = [r.active_matches EXCEPT ![r.match_id] =
                                     [server_seed |-> server_seed] @@ @]
           /\ player_to_match' = r.player_to_match
           /\ sid_to_user' = r.sid_to_user
    /\ UNCHANGED <<now, enable_bot, guardVars, matchmaking_queue, device_to_users, ludo_games,
                   tasks, escrow, lock_failed, done, ledgerVars>>

\* server_seed_hash as _handle_match_found and _start_match send it
server_seed_hash(room) == sha256(<<room.server_seed>>)

\* ludo_start_game with the whole engine: LudoEngine(match_id, player_ids)
\* creates ProvablyFairDice() without a seed, which draws its own
LudoStartGameSeeded(sid, m, dice_seed) ==
    /\ sid \in DOMAIN sid_to_user
    /\ m \in DOMAIN active_matches
    /\ active_matches[m].state = "IN_PROGRESS"
    /\ ludo_games' = DictPut(ludo_games, m,
                              start_game(NewLudoEngine(active_matches[m].players,
                                                       dice_seed)).engine)
    /\ UNCHANGED <<now, enable_bot, guardVars, active_matches, match_count, player_to_match,
                   sid_to_user, matchmaking_queue, device_to_users, tasks, escrow,
                   lock_failed, done, ledgerVars>>

NextSeeds ==
    \/ \E server_seed \in SeedChoices : CreateSeededMatch(server_seed)
    \/ \E sid \in Users : PlayerReady(sid, 1)
    \/ \E t \in TaskIds : TransitionToLocked(t)
    \/ \E t \in TaskIds, sufficient \in BOOLEAN, locked \in BOOLEAN :
          ExecuteSoftLock(t, sufficient, locked)
    \/ \E t \in TaskIds : RevertSoftLock(t)
    \/ \E sid \in Users : ConfirmEscrow(sid, 1)
    \/ \E sid \in Users, dice_seed \in SeedChoices : LudoStartGameSeeded(sid, 1, dice_seed)
    \/ 1 \in DOMAIN ludo_games /\ \E u \in Users : RollDice(u, None)
    \/ 1 \in DOMAIN ludo_games /\ \E u \in Users, piece_id \in PieceIds : MovePiece(u, piece_id)

SpecSeeds == InitFSM /\ [][NextSeeds]_vars

\* C38: the hash sent as server_seed_hash in match_found and match_started
\* is the hash of the seed of the match's dice: the one start_game and every
\* DiceRoll carry, whose seed game_over reveals
C38_AnnouncedHashIsOfDiceSeed ==
    \A m \in DOMAIN ludo_games \cap DOMAIN active_matches :
        /\ start_game_result(NewLudoEngine(ludo_games[m].player_order,
                                            ludo_games[m].server_seed))
             = {server_seed_hash(active_matches[m])}
        /\ ludo_games[m].current_roll # None
             => ludo_games[m].current_roll[1].server_seed
                  = server_seed_hash(active_matches[m])
        /\ RawSeed(active_matches[m].server_seed) \in get_verification_data(ludo_games[m])

-----------------------------------------------------------------------------
(***************************************************************************)
(* Claims on the cells of the board (SpecGames, SpecLudo)                  *)
(***************************************************************************)
\* C39: no ring cell outside SAFE_POSITIONS holds ACTIVE pieces of two
\* different players
C39_OneColourPerOpenCell ==
    \A u, v \in Users, j, k \in 1..PIECES_PER_PLAYER :
        LET p == ludo_games[1].pieces[u][j]
            q == ludo_games[1].pieces[v][k]
        IN  ( /\ u # v
              /\ p.state = "ACTIVE"
              /\ q.state = "ACTIVE"
              /\ p.position = q.position )
              => p.position \in SAFE_POSITIONS

\* the totals of dice values with which a piece in the home stretch can reach
\* FINISHED by moves that _can_move_piece allows
RECURSIVE SafeZonePips(_, _)
SafeZonePips(piece, owner) ==
    UNION { LET move_info == can_move_piece(piece, owner, d)
            IN  IF move_info = None THEN {}
                ELSE IF move_info[1].action = "finish" THEN {d}
                ELSE {d + t : t \in SafeZonePips([piece EXCEPT !.safe_zone_pos = move_info[1].to],
                                                  owner)}
            : d \in DiceValues }

\* the same for an ACTIVE piece whose next move leaves the ring: finish in
\* one move, or enter_safe and then the moves of the home stretch
RingPips(piece, owner) ==
    UNION { LET move_info == can_move_piece(piece, owner, d)
            IN  IF move_info = None THEN {}
                ELSE IF move_info[1].action = "finish" THEN {d}
                ELSE IF move_info[1].action = "enter_safe"
                THEN {d + t : t \in SafeZonePips([state |-> "SAFE_ZONE", position |-> -1,
                                                   safe_zone_pos |-> move_info[1].to], owner)}
                ELSE {}
            : d \in DiceValues }

\* C40: from the ring cell of an ACTIVE piece the total of the dice values
\* that bring it to FINISHED is one number, however the piece gets there
C40_FinishingDistanceIsFixed ==
    \A u \in Users, k \in 1..PIECES_PER_PLAYER :
        LET piece == ludo_games[1].pieces[u][k]
        IN  piece.state = "ACTIVE"
              => Cardinality(RingPips(piece, ludo_games[1].color[u])) <= 1

====
